---- MODULE Spec2Model ----
(***************************************************************************)
(* A model of the kanari-p2p crate: the peer table (peer.rs), the swarm    *)
(* event handlers that drive it (network.rs), the protocol dispatcher      *)
(* (protocol.rs) and the message envelope (message.rs).                    *)
(***************************************************************************)
EXTENDS Integers, Sequences, FiniteSets, TLC

(***************************************************************************)
(* Bounds of the model.                                                    *)
(***************************************************************************)
MaxTime == 2          \* the clock reads 0..MaxTime
Timeout == 1          \* the connection timeout the peer manager is built with
MaxRep == 1           \* reputation scores stay within -MaxRep..MaxRep
MaxProtocols == 2     \* add_protocol calls after the manager is built
EpochSecs == 1700000000  \* the seconds since the Unix epoch at clock reading 0

PeerIds == {"p1", "p2", "p3"}
Addrs == {"a1"}

\* The capacities a peer manager is built with: below the number of peer ids, so
\* that a full table can still be offered a peer it does not hold.
Capacities == 0..(Cardinality(PeerIds) - 1)

\* Option<T>: None is the empty sequence, Some(x) the one-element sequence.
None == <<>>
Some(x) == <<x>>

VARIABLES
  peers,               \* PeerManager.peers : HashMap<NodeId, Peer>
  max_peers,           \* PeerManager.max_peers
  connection_timeout,  \* PeerManager.connection_timeout
  now,                 \* the reading of SystemTime::now()
  last,                \* the last call: its name, its result and what it logged
  protocols,           \* ProtocolManager.protocols : Vec<Box<dyn Protocol>>
  known_nodes,         \* NodeDiscoveryProtocol.known_nodes
  d_pc,                \* where ProtocolManager::handle_message stands
  d_msg,               \* its message
  d_idx,               \* the position of its loop over the protocols
  d_responses,         \* its local `responses`
  d_result,            \* what it returned
  d_running,           \* the handlers whose handle_message has been called and not returned
  d_calls,             \* the handlers called for this message, in the order of the calls
  d_outs,              \* what they returned, in the order of the returns
  m_msg,               \* a Message, None before Message::new
  m_bytes,             \* the result of to_bytes on it, None before the call
  m_decoded,           \* the result of from_bytes on those bytes, None before the call
  m_expired,           \* the last is_expired call on the message: when, and its result
  published,           \* what gossipsub accepted for publishing, in the order it accepted it
  n_calls,             \* the number of broadcast_message and send_direct_message calls made
  n_last,              \* the last of these calls and its result
  event_sender,        \* P2PNetwork.event_sender
  sink,                \* the events sent through event_sender, in the order sent
  is_running,          \* Node.is_running of the local node
  run_pc,              \* where P2PNetwork::run stands
  cur,                 \* the swarm event it is handling
  pending,             \* the swarm's events not yet taken by run, in arrival order
  n_arrived,           \* the number of events that have arrived
  n_taken,             \* the number of events run has taken
  stats,               \* what the last get_stats call gave, None before the first
  found,               \* what the last query for peers gave, None before the first
  bootstrap_peers,     \* P2PConfig.bootstrap_peers
  enable_kademlia,     \* P2PConfig.enable_kademlia
  started,             \* what P2PNetwork::start did and returned, None before the call
  num_established      \* the swarm's count of the connections open to each peer

peerVars == <<peers, max_peers, connection_timeout, now, last>>

dispVars == <<protocols, known_nodes, d_pc, d_msg, d_idx, d_responses, d_result,
              d_running, d_calls, d_outs>>

msgVars == <<m_msg, m_bytes, m_decoded, m_expired>>

netVars == <<published, n_calls, n_last>>

sinkVars == <<event_sender, sink>>

loopVars == <<is_running, run_pc, cur, pending, n_arrived, n_taken>>

queryVars == <<stats, found>>

startVars == <<bootstrap_peers, enable_kademlia, started>>

connVars == <<num_established>>

vars == <<peerVars, dispVars, msgVars, netVars, sinkVars, loopVars, queryVars, startVars,
          connVars>>

\* What the calls on one component leave alone.
notPeerVars == <<dispVars, msgVars, netVars, sinkVars, loopVars, queryVars, startVars, connVars>>
notDispVars == <<peerVars, msgVars, netVars, sinkVars, loopVars, queryVars, startVars, connVars>>
notMsgVars == <<peerVars, dispVars, netVars, sinkVars, loopVars, queryVars, startVars, connVars>>
notNetVars == <<peerVars, dispVars, msgVars, sinkVars, loopVars, queryVars, startVars, connVars>>

(***************************************************************************)
(* peer.rs                                                                 *)
(***************************************************************************)
Statuses == {"Connected", "Connecting", "Disconnected", "Failed"}

\* node.rs NodeInfo, reduced to the two fields Peer::update_info copies.
NodeInfos == {[version |-> "1.0.0", capabilities |-> <<"block_validation">>]}

PeerInfoNew(id, address, t) ==
  [id |-> id, address |-> address, status |-> "Disconnected", last_seen |-> t,
   connection_time |-> None, version |-> "unknown", capabilities |-> <<>>,
   latency |-> None, reputation_score |-> 0]

PeerNew(id, address, t) == [info |-> PeerInfoNew(id, address, t), node_info |-> None]

is_connected(info) == info.status = "Connected"

update_last_seen(info, t) == [info EXCEPT !.last_seen = t]

\* set_connected without the stamp of connection_time.
set_connected_no_stamp(info, t) ==
  update_last_seen([info EXCEPT !.status = "Connected"], t)

set_connected(info, t) ==
  update_last_seen([info EXCEPT !.status = "Connected", !.connection_time = Some(t)], t)

set_disconnected(info) ==
  [info EXCEPT !.status = "Disconnected", !.connection_time = None]

PeerUpdateInfo(peer, node_info, t) ==
  [info |-> update_last_seen([peer.info EXCEPT !.version = node_info.version,
                                               !.capabilities = node_info.capabilities], t),
   node_info |-> Some(node_info)]

\* HashMap::insert and HashMap::remove on a table (a function on the ids it holds).
Insert(tbl, id, peer) == [k \in (DOMAIN tbl) \cup {id} |-> IF k = id THEN peer ELSE tbl[k]]
Remove(tbl, ids) == [k \in (DOMAIN tbl) \ ids |-> tbl[k]]

get_peer(tbl, id) == IF id \in DOMAIN tbl THEN Some(tbl[id]) ELSE None

\* find_peer_to_remove without its filter on the status.
find_peer_to_remove_any_status(tbl) ==
  {id \in DOMAIN tbl : \A o \in DOMAIN tbl : tbl[id].info.last_seen <= tbl[o].info.last_seen}

\* find_peer_to_remove with max_by_key for min_by_key.
find_peer_to_remove_newest(tbl) ==
  LET cand == {id \in DOMAIN tbl : tbl[id].info.status # "Connected"}
  IN {id \in cand : \A o \in cand : tbl[id].info.last_seen >= tbl[o].info.last_seen}

\* The ids min_by_key may return: a not-Connected peer with the least last_seen.
\* Among equal keys the first in HashMap iteration order wins, and that order is
\* arbitrary, so every minimal peer is a possible result; the empty set is None.
find_peer_to_remove(tbl) ==
  LET cand == {id \in DOMAIN tbl : ~is_connected(tbl[id].info)}
  IN {id \in cand : \A o \in cand : tbl[id].info.last_seen <= tbl[o].info.last_seen}

\* add_peer with > for >= in its test of the capacity.
add_peer_off_by_one(tbl, peer, maxp) ==
  IF Cardinality(DOMAIN tbl) > maxp
  THEN IF find_peer_to_remove(tbl) # {}
       THEN {[peers |-> Insert(Remove(tbl, {v}), peer.info.id, peer), ok |-> TRUE,
              out |-> Some(v), old |-> get_peer(Remove(tbl, {v}), peer.info.id)] :
               v \in find_peer_to_remove(tbl)}
       ELSE {[peers |-> tbl, ok |-> FALSE, out |-> None, old |-> None]}
  ELSE {[peers |-> Insert(tbl, peer.info.id, peer), ok |-> TRUE, out |-> None,
         old |-> get_peer(tbl, peer.info.id)]}

\* add_peer that keeps the record of an id the table already holds.
add_peer_keeping_old(tbl, peer, maxp) ==
  IF Cardinality(DOMAIN tbl) >= maxp
  THEN IF find_peer_to_remove(tbl) # {}
       THEN {[peers |-> Insert(Remove(tbl, {v}), peer.info.id, peer), ok |-> TRUE,
              out |-> Some(v), old |-> get_peer(Remove(tbl, {v}), peer.info.id)] :
               v \in find_peer_to_remove(tbl)}
       ELSE {[peers |-> tbl, ok |-> FALSE, out |-> None, old |-> None]}
  ELSE {[peers |-> IF peer.info.id \in DOMAIN tbl THEN tbl
                   ELSE Insert(tbl, peer.info.id, peer),
         ok |-> TRUE, out |-> None, old |-> get_peer(tbl, peer.info.id)]}

\* The outcomes of add_peer: the table afterwards, the result, the peer evicted and
\* the record HashMap::insert displaced (it returns it, and add_peer drops it).
add_peer(tbl, peer, maxp) ==
  IF Cardinality(DOMAIN tbl) >= maxp
  THEN IF find_peer_to_remove(tbl) # {}
       THEN {[peers |-> Insert(Remove(tbl, {v}), peer.info.id, peer), ok |-> TRUE,
              out |-> Some(v), old |-> get_peer(Remove(tbl, {v}), peer.info.id)] :
               v \in find_peer_to_remove(tbl)}
       ELSE {[peers |-> tbl, ok |-> FALSE, out |-> None, old |-> None]}
  ELSE {[peers |-> Insert(tbl, peer.info.id, peer), ok |-> TRUE, out |-> None,
         old |-> get_peer(tbl, peer.info.id)]}

\* remove_peer that returns the record and leaves it in the table.
remove_peer_keeping(tbl, id) ==
  IF id \in DOMAIN tbl
  THEN [peers |-> tbl, out |-> Some(tbl[id])]
  ELSE [peers |-> tbl, out |-> None]

remove_peer(tbl, id) ==
  IF id \in DOMAIN tbl
  THEN [peers |-> Remove(tbl, {id}), out |-> Some(tbl[id])]
  ELSE [peers |-> tbl, out |-> None]

\* update_peer_status that inserts a record for an id the table does not hold.
update_peer_status_inserting(tbl, id, status, t) ==
  IF id \in DOMAIN tbl
  THEN [tbl EXCEPT ![id].info =
          CASE status = "Connected" -> set_connected(@, t)
            [] status = "Disconnected" -> set_disconnected(@)
            [] OTHER -> [@ EXCEPT !.status = status]]
  ELSE Insert(tbl, id, [PeerNew(id, "", t) EXCEPT !.info.status = status])

update_peer_status(tbl, id, status, t) ==
  IF id \in DOMAIN tbl
  THEN [tbl EXCEPT ![id].info =
          CASE status = "Connected" -> set_connected(@, t)
            [] status = "Disconnected" -> set_disconnected(@)
            [] OTHER -> [@ EXCEPT !.status = status]]
  ELSE tbl

update_peer_info(tbl, id, node_info, t) ==
  IF id \in DOMAIN tbl
  THEN [tbl EXCEPT ![id] = PeerUpdateInfo(@, node_info, t)]
  ELSE tbl

\* SystemTime::duration_since: an error when `earlier` is later than `later`.
duration_since(later, earlier) ==
  IF earlier <= later THEN [ok |-> TRUE, d |-> later - earlier] ELSE [ok |-> FALSE, d |-> 0]

\* stale_peers without its test of the status.
stale_peers_any_status(tbl, t, timeout) ==
  {id \in DOMAIN tbl :
     LET r == duration_since(t, tbl[id].info.last_seen)
     IN IF r.ok THEN r.d > timeout ELSE FALSE}

stale_peers(tbl, t, timeout) ==
  {id \in DOMAIN tbl :
     LET r == duration_since(t, tbl[id].info.last_seen)
     IN IF r.ok THEN r.d > timeout /\ tbl[id].info.status # "Connected" ELSE FALSE}

\* cleanup_stale_connections that removes the stale records that are Failed only.
cleanup_stale_connections_failed_only(tbl, t, timeout) ==
  Remove(tbl, {id \in stale_peers(tbl, t, timeout) : tbl[id].info.status = "Failed"})

cleanup_stale_connections(tbl, t, timeout) == Remove(tbl, stale_peers(tbl, t, timeout))

\* update_peer_latency without its update_last_seen.
update_peer_latency_no_stamp(tbl, id, latency, t) ==
  IF id \in DOMAIN tbl
  THEN [tbl EXCEPT ![id].info.latency = Some(latency)]
  ELSE tbl

update_peer_latency(tbl, id, latency, t) ==
  IF id \in DOMAIN tbl
  THEN [tbl EXCEPT ![id].info = update_last_seen([@ EXCEPT !.latency = Some(latency)], t)]
  ELSE tbl

\* reputation_score is an i32.
I32Max == 2147483647
I32Min == (0 - I32Max) - 1

\* a + b leaves the range of i32.
Overflows(a, b) ==
  \/ b > 0 /\ a > I32Max - b
  \/ b < 0 /\ a < I32Min - b

\* a + b in i32 arithmetic that wraps.
WrapAdd(a, b) ==
  IF b > 0 /\ a > I32Max - b THEN ((a - I32Max) - 1) + ((b - I32Max) - 1)
  ELSE IF b < 0 /\ a < I32Min - b THEN ((a + I32Max) + 1) + ((b + I32Max) + 1)
  ELSE a + b

\* a - b leaves the range of i32.
SubOverflows(a, b) ==
  \/ b > 0 /\ a < I32Min + b
  \/ b < 0 /\ a > I32Max + b

\* a - b in i32 arithmetic that wraps.
WrapSub(a, b) ==
  IF b > 0 /\ a < I32Min + b THEN ((a + I32Max) + 1) - ((b - I32Max) - 1)
  ELSE IF b < 0 /\ a > I32Max + b THEN ((a - I32Max) - 1) - ((b + I32Max) + 1)
  ELSE a - b

\* `a += b` and `a -= b` on i32: where the result leaves the range, a build with
\* overflow checks panics before it stores anything and one without stores the
\* wrapped result.
add_assign(a, b) ==
  IF Overflows(a, b)
  THEN {[panic |-> TRUE, value |-> a], [panic |-> FALSE, value |-> WrapAdd(a, b)]}
  ELSE {[panic |-> FALSE, value |-> a + b]}

sub_assign(a, b) ==
  IF SubOverflows(a, b)
  THEN {[panic |-> TRUE, value |-> a], [panic |-> FALSE, value |-> WrapSub(a, b)]}
  ELSE {[panic |-> FALSE, value |-> a - b]}

\* The outcomes of increase_reputation: whether it panicked, and the table afterwards.
increase_reputation(tbl, id, amount) ==
  IF id \in DOMAIN tbl
  THEN {[panic |-> r.panic, peers |-> [tbl EXCEPT ![id].info.reputation_score = r.value]] :
          r \in add_assign(tbl[id].info.reputation_score, amount)}
  ELSE {[panic |-> FALSE, peers |-> tbl]}

decrease_reputation(tbl, id, amount) ==
  IF id \in DOMAIN tbl
  THEN {[panic |-> r.panic, peers |-> [tbl EXCEPT ![id].info.reputation_score = r.value]] :
          r \in sub_assign(tbl[id].info.reputation_score, amount)}
  ELSE {[panic |-> FALSE, peers |-> tbl]}

(***************************************************************************)
(* Calls on the peer manager.                                              *)
(***************************************************************************)
\* A call: its name, whether it succeeded, the peer add_peer evicted, the record
\* remove_peer returned or add_peer's insert displaced, and the peers the cleanup
\* removed.
Call(op, ok, evicted, removed, stale) ==
  [op |-> op, ok |-> ok, evicted |-> evicted, removed |-> removed, stale |-> stale]

PeerInit ==
  /\ peers = <<>>
  /\ max_peers \in Capacities
  /\ connection_timeout = Timeout
  /\ now = 0
  /\ last = Call("new", TRUE, None, None, {})

\* add_peer(Peer::new(id, addr)).
AddPeer(id, addr) ==
  \E o \in add_peer(peers, PeerNew(id, addr, now), max_peers) :
    /\ peers' = o.peers
    /\ last' = Call("add_peer", o.ok, o.out, o.old, {})
    /\ UNCHANGED <<max_peers, connection_timeout, now, notPeerVars>>

RemovePeer(id) ==
  /\ peers' = remove_peer(peers, id).peers
  /\ last' = Call("remove_peer", TRUE, None, remove_peer(peers, id).out, {})
  /\ UNCHANGED <<max_peers, connection_timeout, now, notPeerVars>>

UpdatePeerStatus(id, status) ==
  /\ peers' = update_peer_status(peers, id, status, now)
  /\ last' = Call("update_peer_status", TRUE, None, None, {})
  /\ UNCHANGED <<max_peers, connection_timeout, now, notPeerVars>>

UpdatePeerInfo(id, node_info) ==
  /\ peers' = update_peer_info(peers, id, node_info, now)
  /\ last' = Call("update_peer_info", TRUE, None, None, {})
  /\ UNCHANGED <<max_peers, connection_timeout, now, notPeerVars>>

UpdatePeerLatency(id, latency) ==
  /\ peers' = update_peer_latency(peers, id, latency, now)
  /\ last' = Call("update_peer_latency", TRUE, None, None, {})
  /\ UNCHANGED <<max_peers, connection_timeout, now, notPeerVars>>

IncreaseReputation(id, amount) ==
  /\ id \in DOMAIN peers => peers[id].info.reputation_score + amount <= MaxRep
  /\ \E o \in increase_reputation(peers, id, amount) :
       /\ peers' = o.peers
       /\ last' = Call("increase_reputation", ~o.panic, None, None, {})
  /\ UNCHANGED <<max_peers, connection_timeout, now, notPeerVars>>

DecreaseReputation(id, amount) ==
  /\ id \in DOMAIN peers => peers[id].info.reputation_score - amount >= -MaxRep
  /\ \E o \in decrease_reputation(peers, id, amount) :
       /\ peers' = o.peers
       /\ last' = Call("decrease_reputation", ~o.panic, None, None, {})
  /\ UNCHANGED <<max_peers, connection_timeout, now, notPeerVars>>

\* Also the cleanup tick of P2PNetwork::run.  It logs the peers it removes.
CleanupBody ==
  /\ peers' = cleanup_stale_connections(peers, now, connection_timeout)
  /\ last' = Call("cleanup_stale_connections", TRUE, None, None,
                  stale_peers(peers, now, connection_timeout))
  /\ UNCHANGED <<max_peers, connection_timeout, now>>

CleanupStaleConnections == CleanupBody /\ UNCHANGED notPeerVars

\* The system clock moves on.
Tick ==
  /\ now < MaxTime
  /\ now' = now + 1
  /\ UNCHANGED <<peers, max_peers, connection_timeout, last, notPeerVars>>

\* SystemTime is not monotonic: the system clock is set back.
ClockStepBack ==
  /\ now > 0
  /\ now' = now - 1
  /\ UNCHANGED <<peers, max_peers, connection_timeout, last, notPeerVars>>

(***************************************************************************)
(* network.rs: P2PNetwork::handle_swarm_event, one action per event.       *)
(***************************************************************************)
\* The peer table after a ConnectionEstablished event, for one outcome of add_peer.
on_connection_established(o, id, t) ==
  IF o.ok THEN update_peer_status(o.peers, id, "Connected", t) ELSE o.peers

\* NetworkEvent, and `if let Some(sender) = &self.event_sender { sender.send(..) }`.
NetworkEvent(type, id) == [type |-> type, peer |-> id]

send(snk, sender, event) == IF sender # None THEN Append(snk, event) ELSE snk

\* What the handlers of the swarm events leave alone.
notHandlerVars == <<dispVars, msgVars, netVars, loopVars, queryVars, startVars, connVars>>

ConnectionEstablishedBody(id, addr) ==
  /\ \E o \in add_peer(peers, PeerNew(id, addr, now), max_peers) :
       /\ peers' = on_connection_established(o, id, now)
       /\ last' = Call("ConnectionEstablished", o.ok, o.out, None, {})
  /\ sink' = send(sink, event_sender, NetworkEvent("PeerConnected", id))
  /\ UNCHANGED <<max_peers, connection_timeout, now, event_sender>>

ConnectionEstablished(id, addr) ==
  ConnectionEstablishedBody(id, addr) /\ UNCHANGED notHandlerVars

\* A handler of ConnectionClosed that drops the record of the peer.
on_connection_closed_removing(tbl, id, t) ==
  [p \in DOMAIN tbl \ {id} |-> tbl[p]]

on_connection_closed(tbl, id, t) == update_peer_status(tbl, id, "Disconnected", t)

ConnectionClosedBody(id) ==
  /\ peers' = on_connection_closed(peers, id, now)
  /\ last' = Call("ConnectionClosed", TRUE, None, None, {})
  /\ sink' = send(sink, event_sender, NetworkEvent("PeerDisconnected", id))
  /\ UNCHANGED <<max_peers, connection_timeout, now, event_sender>>

ConnectionClosed(id) == ConnectionClosedBody(id) /\ UNCHANGED notHandlerVars

\* peer is the event's Option<PeerId>.
on_outgoing_connection_error(tbl, peer, t) ==
  IF peer # None THEN update_peer_status(tbl, peer[1], "Failed", t) ELSE tbl

OutgoingConnectionErrorBody(peer) ==
  /\ peers' = on_outgoing_connection_error(peers, peer, now)
  /\ last' = Call("OutgoingConnectionError", TRUE, None, None, {})
  /\ UNCHANGED <<max_peers, connection_timeout, now, sinkVars>>

OutgoingConnectionError(peer) ==
  OutgoingConnectionErrorBody(peer) /\ UNCHANGED notHandlerVars

\* Behaviour, NewListenAddr, IncomingConnection and every other event: logged only.
OtherSwarmEventBody ==
  /\ last' = Call("OtherSwarmEvent", TRUE, None, None, {})
  /\ UNCHANGED <<peers, max_peers, connection_timeout, now, sinkVars>>

OtherSwarmEvent == OtherSwarmEventBody /\ UNCHANGED notHandlerVars

(***************************************************************************)
(* Spec: the peer table under the swarm events and the calls that change   *)
(* which peers it holds and their status.                                  *)
(***************************************************************************)
DispIdle ==
  /\ protocols = <<>>
  /\ known_nodes = <<>>
  /\ d_pc = "idle"
  /\ d_msg = None
  /\ d_idx = 1
  /\ d_responses = <<>>
  /\ d_result = None
  /\ d_running = {}
  /\ d_calls = <<>>
  /\ d_outs = <<>>

MsgIdle ==
  /\ m_msg = None
  /\ m_bytes = None
  /\ m_decoded = None
  /\ m_expired = None

NetIdle ==
  /\ published = <<>>
  /\ n_calls = 0
  /\ n_last = [op |-> "new", ok |-> TRUE, outcome |-> "Ok", topic |-> "", msg_type |-> <<>>]

SinkIdle ==
  /\ event_sender = None
  /\ sink = <<>>

LoopIdle ==
  /\ is_running = FALSE
  /\ run_pc = "idle"
  /\ cur = None
  /\ pending = <<>>
  /\ n_arrived = 0
  /\ n_taken = 0
  /\ stats = None
  /\ found = None
  /\ bootstrap_peers = <<>>
  /\ enable_kademlia = TRUE
  /\ started = None
  /\ num_established = [id \in PeerIds |-> 0]

Init == PeerInit /\ DispIdle /\ MsgIdle /\ NetIdle /\ SinkIdle /\ LoopIdle

Next ==
  \/ \E id \in PeerIds, addr \in Addrs : AddPeer(id, addr)
  \/ \E id \in PeerIds : RemovePeer(id)
  \/ \E id \in PeerIds, s \in Statuses : UpdatePeerStatus(id, s)
  \/ CleanupStaleConnections
  \/ \E id \in PeerIds, addr \in Addrs : ConnectionEstablished(id, addr)
  \/ \E id \in PeerIds : ConnectionClosed(id)
  \/ \E peer \in {None} \cup {Some(id) : id \in PeerIds} : OutgoingConnectionError(peer)
  \/ OtherSwarmEvent
  \/ Tick
  \/ ClockStepBack

Spec == Init /\ [][Next]_vars

(***************************************************************************)
(* Properties of the peer table.                                           *)
(***************************************************************************)
Full(tbl) == Cardinality(DOMAIN tbl) = max_peers
NotConnected(tbl) == {id \in DOMAIN tbl : tbl[id].info.status # "Connected"}

\* C1: after any sequence of calls of the peer manager's interface the table holds
\* at most max_peers records.
C1_AtMostMaxPeers == Cardinality(DOMAIN peers) <= max_peers

\* A two-slot table that is full after add_peer evicted a peer for the new one.
C1_Witness ==
  /\ last.op = "add_peer" /\ last.ok /\ last.evicted # None
  /\ max_peers = 2 /\ Full(peers)

\* C2: add_peer on a full table whose records are all Connected returns an error
\* and leaves the table as it was.
C2_FullConnectedAddFails ==
  [][\A id \in PeerIds, addr \in Addrs :
       (last'.op = "add_peer" /\ Full(peers) /\ NotConnected(peers) = {}
          /\ AddPeer(id, addr))
         => (~last'.ok /\ peers' = peers)]_vars

\* add_peer has just failed on a full two-slot table of Connected peers.
C2_Witness ==
  /\ last.op = "add_peer" /\ ~last.ok
  /\ max_peers = 2 /\ Full(peers) /\ NotConnected(peers) = {}

\* C3: add_peer of an id the table does not hold, on a full table with a record that
\* is not Connected, succeeds, removes exactly one record, a not-Connected one with
\* the oldest last_seen among them, and leaves max_peers records, the evicted id
\* not among them.
C3_EvictsOldestNotConnected ==
  [][\A id \in PeerIds, addr \in Addrs :
       (last'.op = "add_peer" /\ id \notin DOMAIN peers /\ Full(peers)
          /\ NotConnected(peers) # {} /\ AddPeer(id, addr))
         => /\ last'.ok
            /\ Cardinality(DOMAIN peers') = max_peers
            /\ id \in DOMAIN peers'
            /\ \E e \in NotConnected(peers) :
                 /\ DOMAIN peers' = (DOMAIN peers \ {e}) \cup {id}
                 /\ \A q \in NotConnected(peers) :
                      peers[e].info.last_seen <= peers[q].info.last_seen
                 /\ get_peer(peers', e) = None
                 /\ \A q \in DOMAIN peers \ {e} : peers'[q] = peers[q]]_vars

\* add_peer has just evicted a peer from a full two-slot table; the record that
\* stayed is not Connected either, and was seen later than the clock's start.
C3_Witness ==
  /\ last.op = "add_peer" /\ last.ok /\ last.evicted # None
  /\ max_peers = 2 /\ Full(peers)
  /\ last.evicted[1] \notin DOMAIN peers
  /\ \E q \in NotConnected(peers) :
       peers[q].info.last_seen > 0 /\ peers[q].info.last_seen < now

\* C4: cleanup_stale_connections removes a record if and only if it is not Connected
\* and now - last_seen exceeds the timeout; the records it keeps are unchanged.
C4_CleanupRemovesExactlyStale ==
  [][CleanupStaleConnections
       => /\ DOMAIN peers' \subseteq DOMAIN peers
          /\ \A id \in DOMAIN peers :
               /\ (id \notin DOMAIN peers')
                    <=> (peers[id].info.status # "Connected"
                           /\ now - peers[id].info.last_seen > connection_timeout)
               /\ id \in DOMAIN peers' => peers'[id] = peers[id]]_vars

\* The cleanup has just removed a peer and kept a Connected peer as old as the removed.
C4_Witness ==
  /\ last.op = "cleanup_stale_connections" /\ last.stale # {}
  /\ \E id \in DOMAIN peers :
       /\ peers[id].info.status = "Connected"
       /\ now - peers[id].info.last_seen > connection_timeout

\* C5: no record goes from Connected directly to Failed, under the swarm events and
\* the update_peer_status calls.
C5_NeverConnectedToFailed ==
  [][\A id \in DOMAIN peers :
       (peers[id].info.status = "Connected" /\ id \in DOMAIN peers')
         => peers'[id].info.status # "Failed"]_vars

(***************************************************************************)
(* SpecApi: every call of the peer manager's interface.  To keep the       *)
(* product of the records' fields enumerable, the clock runs in the tables *)
(* of at most one slot only, and the calls that change nothing but one     *)
(* record's fields are made for the ids of FieldIds.                       *)
(***************************************************************************)
FieldIds == {"p1", "p2"}

TickApi == max_peers <= 1 /\ Tick

InitApi == Init

NextApi ==
  \/ \E id \in PeerIds, addr \in Addrs : AddPeer(id, addr)
  \/ \E id \in PeerIds : RemovePeer(id)
  \/ \E id \in PeerIds, s \in Statuses : UpdatePeerStatus(id, s)
  \/ \E id \in FieldIds, ni \in NodeInfos : UpdatePeerInfo(id, ni)
  \/ \E id \in FieldIds : UpdatePeerLatency(id, 1)
  \/ \E id \in FieldIds : IncreaseReputation(id, 1)
  \/ \E id \in FieldIds : DecreaseReputation(id, 1)
  \/ CleanupStaleConnections
  \/ TickApi

SpecApi == InitApi /\ [][NextApi]_vars

(***************************************************************************)
(* message.rs: MessageType.  Custom carries a tag.                         *)
(***************************************************************************)
BlockKinds == {"BlockProposal", "BlockCommit", "BlockRequest", "BlockResponse"}
TransactionKinds == {"TransactionBroadcast", "TransactionRequest", "TransactionResponse"}
NodeKinds == {"NodeJoin", "NodeLeave", "NodeHeartbeat", "NodeInfo"}
ConsensusKinds == {"ConsensusProposal", "ConsensusVote", "ConsensusCommit"}
PeerKinds == {"PeerDiscovery", "PeerConnection", "PeerDisconnection"}
UnitKinds == BlockKinds \cup TransactionKinds \cup NodeKinds \cup ConsensusKinds \cup PeerKinds

CustomTags == {"foo", "bar"}
Custom(tag) == <<"Custom", tag>>
MessageTypes == {<<k>> : k \in UnitKinds} \cup {Custom(tag) : tag \in CustomTags}
Kind(k) == <<k>>

(***************************************************************************)
(* protocol.rs                                                             *)
(***************************************************************************)
\* BlockSyncProtocol::supported_message_types without BlockCommit.
BlockSyncSupported_NoCommit ==
  {Kind("BlockRequest"), Kind("BlockResponse"), Kind("BlockProposal")}

BlockSyncSupported ==
  {Kind("BlockRequest"), Kind("BlockResponse"), Kind("BlockProposal"), Kind("BlockCommit")}

TransactionPoolSupported ==
  {Kind("TransactionBroadcast"), Kind("TransactionRequest"), Kind("TransactionResponse")}

ConsensusSupported ==
  {Kind("ConsensusProposal"), Kind("ConsensusVote"), Kind("ConsensusCommit")}

NodeDiscoverySupported ==
  {Kind("NodeJoin"), Kind("NodeLeave"), Kind("NodeHeartbeat"), Kind("NodeInfo"),
   Kind("PeerDiscovery"), Kind("PeerConnection"), Kind("PeerDisconnection")}

BuiltinProtocols == {"block_sync", "transaction_pool", "consensus", "node_discovery"}

\* Two further implementations of the Protocol trait, as a caller of add_protocol may
\* register them: what they support is fixed, what they return is up to them.
ExtProtocols == {"ext_a", "ext_b"}

ExtSupported(name) ==
  IF name = "ext_a" THEN {Kind("BlockRequest"), Custom("foo")}
  ELSE {Kind("BlockRequest"), Kind("NodeJoin")}

supported_message_types(name) ==
  CASE name = "block_sync" -> BlockSyncSupported
    [] name = "transaction_pool" -> TransactionPoolSupported
    [] name = "consensus" -> ConsensusSupported
    [] name = "node_discovery" -> NodeDiscoverySupported
    [] OTHER -> ExtSupported(name)

\* Protocol::handle_message returns Ok(None), Ok(Some(reply)) or Err(e).
OkNone == [ok |-> TRUE, reply |-> None]
OkSome(m) == [ok |-> TRUE, reply |-> Some(m)]
Err == [ok |-> FALSE, reply |-> None]

\* The reply of the handler registered at position i.
Reply(name, i) == [by |-> name, at |-> i]

\* What handle_message of the handler `name` at position i may return for msg:
\* every built-in handler returns Ok(None) on every arm.
handler_results(name, i, msg) ==
  IF name \in BuiltinProtocols THEN {OkNone} ELSE {OkNone, OkSome(Reply(name, i)), Err}

Retain(seq, sender) == SelectSeq(seq, LAMBDA n : n # sender)

Contains(seq, x) == \E i \in 1..Len(seq) : seq[i] = x

\* node_discovery_handle without the test that the sender is not known yet.
node_discovery_handle_always_push(nodes, msg) ==
  CASE msg.msg_type = Kind("NodeJoin") ->
         IF msg.sender # None THEN Append(nodes, msg.sender[1]) ELSE nodes
    [] msg.msg_type = Kind("NodeLeave") ->
         IF msg.sender # None THEN Retain(nodes, msg.sender[1]) ELSE nodes
    [] OTHER -> nodes

\* NodeDiscoveryProtocol::handle_message on its known_nodes.
node_discovery_handle(nodes, msg) ==
  CASE msg.msg_type = Kind("NodeJoin") ->
         IF msg.sender # None /\ ~Contains(nodes, msg.sender[1])
         THEN Append(nodes, msg.sender[1]) ELSE nodes
    [] msg.msg_type = Kind("NodeLeave") ->
         IF msg.sender # None THEN Retain(nodes, msg.sender[1]) ELSE nodes
    [] OTHER -> nodes

ProtocolManagerNew == <<>>

add_protocol(protos, name) == Append(protos, name)

ProtocolManagerDefault ==
  add_protocol(add_protocol(add_protocol(add_protocol(ProtocolManagerNew,
    "block_sync"), "transaction_pool"), "consensus"), "node_discovery")

supports(protos, i, msg) == msg.msg_type \in supported_message_types(protos[i])

\* The positions from `from` on whose handler supports msg: the loop calls the first.
matching_from(protos, from, msg) ==
  {i \in from..Len(protos) : supports(protos, i, msg)}

next_match(protos, from, msg) ==
  CHOOSE i \in matching_from(protos, from, msg) :
    \A j \in matching_from(protos, from, msg) : i <= j

\* push_response inserting at the front.
push_response_front(responses, r) ==
  IF r.reply # None THEN <<r.reply[1]>> \o responses ELSE responses

\* `responses` after the handler's result r: Some(response) is pushed.
push_response(responses, r) ==
  IF r.reply # None THEN Append(responses, r.reply[1]) ELSE responses

\* The protocols registered through add_protocol after construction.
added_count(protos) == Cardinality({i \in 1..Len(protos) : protos[i] \in ExtProtocols})

\* The handlers handle_message calls at one step of its loop.
to_call(protos, from, msg) ==
  IF matching_from(protos, from, msg) = {} THEN {} ELSE {next_match(protos, from, msg)}

(***************************************************************************)
(* The dispatcher's steps.                                                 *)
(***************************************************************************)
DispMessages ==
  {[msg_type |-> k, sender |-> s] : k \in MessageTypes, s \in {None, Some("n1")}}

\* ProtocolManager::new() or ProtocolManager::default().
DispInit ==
  /\ protocols \in {ProtocolManagerNew, ProtocolManagerDefault}
  /\ known_nodes = <<>>
  /\ d_pc = "idle"
  /\ d_msg = None
  /\ d_idx = 1
  /\ d_responses = <<>>
  /\ d_result = None
  /\ d_running = {}
  /\ d_calls = <<>>
  /\ d_outs = <<>>

\* add_protocol, between two calls of handle_message: what the last call returned
\* is gone.
AddProtocol(name) ==
  /\ d_pc \in {"idle", "done"}
  /\ added_count(protocols) < MaxProtocols
  /\ protocols' = add_protocol(protocols, name)
  /\ d_pc' = "idle"
  /\ d_msg' = None
  /\ d_idx' = 1
  /\ d_responses' = <<>>
  /\ d_result' = None
  /\ d_calls' = <<>>
  /\ d_outs' = <<>>
  /\ UNCHANGED <<known_nodes, d_running, notDispVars>>

\* handle_message is entered: `responses` is empty and the loop is at the first protocol.
HandleMessage(msg) ==
  /\ d_pc \in {"idle", "done"}
  /\ d_pc' = "loop"
  /\ d_msg' = Some(msg)
  /\ d_idx' = 1
  /\ d_responses' = <<>>
  /\ d_result' = None
  /\ d_calls' = <<>>
  /\ d_outs' = <<>>
  /\ UNCHANGED <<protocols, known_nodes, d_running, notDispVars>>

\* The loop goes on to the next protocol that supports the message and calls it.
CallHandler ==
  /\ d_pc = "loop"
  /\ to_call(protocols, d_idx, d_msg[1]) # {}
  /\ d_running' = d_running \cup to_call(protocols, d_idx, d_msg[1])
  /\ d_idx' = next_match(protocols, d_idx, d_msg[1])
  /\ d_calls' = Append(d_calls, d_idx')
  /\ d_pc' = "await"
  /\ UNCHANGED <<protocols, known_nodes, d_msg, d_responses, d_result, d_outs, notDispVars>>

\* The awaited call returns: `?` returns its error from handle_message at once.
HandlerReturn ==
  /\ d_pc = "await"
  /\ \E r \in handler_results(protocols[d_idx], d_idx, d_msg[1]) :
       /\ d_outs' = Append(d_outs, [at |-> d_idx, res |-> r])
       /\ d_running' = d_running \ {d_idx}
       /\ known_nodes' = IF protocols[d_idx] = "node_discovery"
                         THEN node_discovery_handle(known_nodes, d_msg[1])
                         ELSE known_nodes
       /\ IF r.ok
          THEN /\ d_responses' = push_response(d_responses, r)
               /\ d_idx' = d_idx + 1
               /\ d_pc' = "loop"
               /\ d_result' = None
          ELSE /\ d_pc' = "done"
               /\ d_result' = Some("Err")
               /\ UNCHANGED <<d_responses, d_idx>>
  /\ UNCHANGED <<protocols, d_msg, d_calls, notDispVars>>

\* No protocol is left: Ok(responses).
HandleMessageReturn ==
  /\ d_pc = "loop"
  /\ to_call(protocols, d_idx, d_msg[1]) = {}
  /\ d_pc' = "done"
  /\ d_result' = Some("Ok")
  /\ UNCHANGED <<protocols, known_nodes, d_msg, d_idx, d_responses, d_running,
                 d_calls, d_outs, notDispVars>>

DispNext ==
  \/ \E name \in ExtProtocols : AddProtocol(name)
  \/ \E msg \in DispMessages : HandleMessage(msg)
  \/ CallHandler
  \/ HandlerReturn
  \/ HandleMessageReturn

PeerIdle ==
  /\ peers = <<>>
  /\ max_peers = 0
  /\ connection_timeout = Timeout
  /\ now = 0
  /\ last = Call("new", TRUE, None, None, {})

(***************************************************************************)
(* Properties of the protocol manager.                                     *)
(***************************************************************************)
\* The positions of the protocols that support msg, in ascending order.
RECURSIVE MatchingSeq(_, _, _)
MatchingSeq(protos, from, msg) ==
  IF from > Len(protos) THEN <<>>
  ELSE (IF supports(protos, from, msg) THEN <<from>> ELSE <<>>)
         \o MatchingSeq(protos, from + 1, msg)

\* The replies among the results, in the order of the results.
RECURSIVE RepliesOf(_)
RepliesOf(outs) ==
  IF outs = <<>> THEN <<>>
  ELSE (IF Head(outs).res.reply # None THEN <<Head(outs).res.reply[1]>> ELSE <<>>)
         \o RepliesOf(Tail(outs))

SomeHandlerFailed == \E k \in 1..Len(d_outs) : ~d_outs[k].res.ok

\* C6: when a handler returns an error, handle_message still calls every later
\* registered handler that supports the message.
C6_FailureDoesNotStopLaterHandlers ==
  (d_pc = "done" /\ SomeHandlerFailed)
    => \A i \in matching_from(protocols, 1, d_msg[1]) : Contains(d_calls, i)

\* C7: handle_message calls exactly the registered handlers that support the
\* message's kind, each once; with none it returns Ok with no responses.
C7_CallsExactlyTheSupporting ==
  d_pc = "done"
    => /\ d_calls = MatchingSeq(protocols, 1, d_msg[1])
       /\ matching_from(protocols, 1, d_msg[1]) = {}
            => (d_result = Some("Ok") /\ d_responses = <<>>)

\* C8: the list handle_message returns holds the handlers' replies in registration
\* order, and a handler is called only after the handler called before it returned.
C8_RepliesInOrderOneAtATime ==
  /\ Cardinality(d_running) <= 1
  /\ Len(d_calls) - Len(d_outs) = Cardinality(d_running)
  /\ \A k \in 1..Len(d_outs) : d_outs[k].at = d_calls[k]
  /\ \A j, k \in 1..Len(d_calls) : j < k => d_calls[j] < d_calls[k]
  /\ d_result = Some("Ok")
       => (d_responses = RepliesOf(d_outs)
             /\ \A j, k \in 1..Len(d_responses) :
                  j < k => d_responses[j].at < d_responses[k].at)

\* handle_message returned two replies, of two handlers, and a third handler it
\* called gave none.
C8_Witness ==
  /\ d_result = Some("Ok")
  /\ Len(d_responses) = 2
  /\ Len(d_calls) = 3

\* The handler the table of the built-in handlers names for a kind.
OwnerOf(k) ==
  CASE k \in BlockKinds -> "block_sync"
    [] k \in TransactionKinds -> "transaction_pool"
    [] k \in ConsensusKinds -> "consensus"
    [] k \in NodeKinds \cup PeerKinds -> "node_discovery"

\* C9: in the default manager every kind but Custom is supported by exactly one
\* handler, the one its table names, and a Custom kind by none; handle_message
\* calls that handler alone, and none for a Custom kind.
C9_DefaultManagerOwners ==
  protocols = ProtocolManagerDefault
    => /\ \A k \in UnitKinds :
            \E i \in 1..Len(protocols) :
              /\ protocols[i] = OwnerOf(k)
              /\ matching_from(protocols, 1, [msg_type |-> Kind(k), sender |-> None]) = {i}
       /\ \A tag \in CustomTags :
            matching_from(protocols, 1, [msg_type |-> Custom(tag), sender |-> None]) = {}
       /\ d_pc = "done"
            => /\ d_result = Some("Ok")
               /\ IF d_msg[1].msg_type[1] = "Custom" THEN d_calls = <<>>
                  ELSE /\ Len(d_calls) = 1
                       /\ protocols[d_calls[1]] = OwnerOf(d_msg[1].msg_type[1])

\* The default manager has dispatched a BlockRequest: it called BlockSync alone.
C9_Witness ==
  /\ protocols = ProtocolManagerDefault
  /\ d_pc = "done"
  /\ d_msg[1].msg_type = Kind("BlockRequest")
  /\ d_calls = <<1>>

(***************************************************************************)
(* SpecDispatch: the protocol manager alone.                               *)
(***************************************************************************)
InitDispatch == PeerIdle /\ DispInit /\ MsgIdle /\ NetIdle /\ SinkIdle /\ LoopIdle

SpecDispatch == InitDispatch /\ [][DispNext]_vars

(***************************************************************************)
(* message.rs: Message, and its bincode encoding (to_bytes, from_bytes).   *)
(* bincode::serialize writes the fields in the order of the struct:        *)
(* integers little-endian at their full width, a length as a u64, an       *)
(* Option as a tag byte, an enum as its variant index in a u32, a Uuid as  *)
(* a byte string of length 16.                                             *)
(***************************************************************************)
\* Uuid::new_v4(): two of the values it may draw, as their 16 bytes.
Uuids ==
  {<<18, 52, 86, 120, 154, 188, 77, 239, 129, 35, 69, 103, 137, 171, 205, 239>>,
   <<0, 0, 0, 0, 0, 0, 64, 0, 128, 0, 0, 0, 0, 0, 0, 1>>}

Payloads == {<<>>, <<0, 255>>}

\* The strings of the model and their UTF-8 bytes.
Strings == {"", "n1", "n2", "foo", "bar", "k1", "k2", "v1"}

Utf8(str) ==
  CASE str = "" -> <<>>
    [] str = "n1" -> <<110, 49>>
    [] str = "n2" -> <<110, 50>>
    [] str = "foo" -> <<102, 111, 111>>
    [] str = "bar" -> <<98, 97, 114>>
    [] str = "k1" -> <<107, 49>>
    [] str = "k2" -> <<107, 50>>
    [] str = "v1" -> <<118, 49>>

\* The variants of MessageType in the order of their declaration: index 0 first.
VariantNames ==
  <<"BlockProposal", "BlockCommit", "BlockRequest", "BlockResponse",
    "TransactionBroadcast", "TransactionRequest", "TransactionResponse",
    "NodeJoin", "NodeLeave", "NodeHeartbeat", "NodeInfo",
    "ConsensusProposal", "ConsensusVote", "ConsensusCommit",
    "PeerDiscovery", "PeerConnection", "PeerDisconnection", "Custom">>

VariantIndex(name) == (CHOOSE i \in 1..Len(VariantNames) : VariantNames[i] = name) - 1

\* SystemTime::now().duration_since(UNIX_EPOCH).as_secs() at the clock reading t.
unix_secs(t) == EpochSecs + t

MessageNew(id, msg_type, payload, t) ==
  [id |-> id, msg_type |-> msg_type, payload |-> payload, sender |-> None,
   target |-> None, timestamp |-> unix_secs(t), metadata |-> <<>>, ttl |-> 10]

\* with_sender that also clears the target.
with_sender_clearing_target(m, sender) ==
  [m EXCEPT !.sender = Some(sender), !.target = None]

with_sender(m, sender) == [m EXCEPT !.sender = Some(sender)]
with_target(m, target) == [m EXCEPT !.target = Some(target)]
with_metadata(m, key, value) ==
  [m EXCEPT !.metadata = [k \in (DOMAIN m.metadata) \cup {key} |->
                            IF k = key THEN value ELSE m.metadata[k]]]
with_ttl(m, ttl) == [m EXCEPT !.ttl = ttl]

\* is_expired with `>=` for `>`.
is_expired_at_ttl(m, t) ==
  IF unix_secs(t) < m.timestamp THEN {"panic", "true"}
  ELSE IF unix_secs(t) - m.timestamp >= m.ttl THEN {"true"} ELSE {"false"}

\* Message::is_expired at the clock reading t: what the call may give.  The
\* subtraction is of u64: with the clock behind the timestamp it overflows, which
\* panics in a build with overflow checks and wraps to a number above any ttl in
\* a build without.
is_expired(m, t) ==
  IF unix_secs(t) < m.timestamp THEN {"panic", "true"}
  ELSE IF unix_secs(t) - m.timestamp > m.ttl THEN {"true"} ELSE {"false"}

\* A u32 and a u64, little-endian.  The numbers of the model are below 2^31, so
\* the upper four bytes of a u64 are zero.
U32LE(n) == <<n % 256, (n \div 256) % 256, (n \div 65536) % 256, (n \div 16777216) % 256>>
U64LE(n) == U32LE(n) \o <<0, 0, 0, 0>>

EncString(str) == U64LE(Len(Utf8(str))) \o Utf8(str)
EncByteVec(b) == U64LE(Len(b)) \o b
EncOptionString(o) == IF o = None THEN <<0>> ELSE <<1>> \o EncString(o[1])
EncUuid(id) == U64LE(Len(id)) \o id
EncMessageType(t) ==
  U32LE(VariantIndex(t[1])) \o (IF t[1] = "Custom" THEN EncString(t[2]) ELSE <<>>)

\* The entries of a HashMap in the order `order` of its iteration.
RECURSIVE EncEntries(_, _)
EncEntries(md, order) ==
  IF order = <<>> THEN <<>>
  ELSE EncString(Head(order)) \o EncString(md[Head(order)]) \o EncEntries(md, Tail(order))

EncMap(md, order) == U64LE(Len(order)) \o EncEntries(md, order)

\* The orders in which a HashMap with the keys S may iterate.
IterationOrders(S) ==
  {o \in [1..Cardinality(S) -> S] : \A i, j \in 1..Cardinality(S) : o[i] = o[j] => i = j}

\* to_bytes with the target written before the sender.
to_bytes_target_first(m, order) ==
  [ok |-> TRUE,
   bytes |-> EncUuid(m.id) \o EncMessageType(m.msg_type) \o EncByteVec(m.payload)
               \o EncOptionString(m.target) \o EncOptionString(m.sender)
               \o U64LE(m.timestamp) \o EncMap(m.metadata, order) \o U32LE(m.ttl)]

\* Message::to_bytes, the metadata iterated in the order `order`.
to_bytes(m, order) ==
  [ok |-> TRUE,
   bytes |-> EncUuid(m.id) \o EncMessageType(m.msg_type) \o EncByteVec(m.payload)
               \o EncOptionString(m.sender) \o EncOptionString(m.target)
               \o U64LE(m.timestamp) \o EncMap(m.metadata, order) \o U32LE(m.ttl)]

\* A reader's result: the value read and the bytes after it, or a failure.
Read(val, rest) == [ok |-> TRUE, val |-> val, rest |-> rest]
Fail == [ok |-> FALSE, val |-> 0, rest |-> <<>>]

\* The element of a set of one element.  A reader's result is named by ranging
\* over such a set, so that it is computed once however often it is used.
The(S) == CHOOSE x \in S : TRUE

Take(b, n) ==
  IF n <= Len(b) THEN Read(SubSeq(b, 1, n), SubSeq(b, n + 1, Len(b))) ELSE Fail

\* A number of 2^31 or more is outside the model's integers: it reads as TooLarge.
TooLarge == 0 - 1

ReadU32(b) ==
  IF Len(b) < 4 THEN Fail
  ELSE Read(IF b[4] >= 128 THEN TooLarge
            ELSE b[1] + 256 * b[2] + 65536 * b[3] + 16777216 * b[4],
            SubSeq(b, 5, Len(b)))

ReadU64(b) ==
  IF Len(b) < 8 THEN Fail
  ELSE Read(IF SubSeq(b, 5, 8) # <<0, 0, 0, 0>> \/ b[4] >= 128 THEN TooLarge
            ELSE b[1] + 256 * b[2] + 65536 * b[3] + 16777216 * b[4],
            SubSeq(b, 9, Len(b)))

\* A length and that many bytes: a length past the end of the input fails.
ReadByteVec(b) ==
  The({IF ~n.ok \/ n.val = TooLarge THEN Fail ELSE Take(n.rest, n.val) :
         n \in {ReadU64(b)}})

\* String::from_utf8 on the bytes read; bytes of no string of the model fail.
ReadString(b) ==
  The({IF ~r.ok \/ ~(\E str \in Strings : Utf8(str) = r.val) THEN Fail
       ELSE Read(CHOOSE str \in Strings : Utf8(str) = r.val, r.rest) :
         r \in {ReadByteVec(b)}})

ReadSomeString(b) ==
  The({IF r.ok THEN Read(Some(r.val), r.rest) ELSE Fail : r \in {ReadString(b)}})

ReadOptionString(b) ==
  IF Len(b) < 1 THEN Fail
  ELSE IF b[1] = 0 THEN Read(None, Tail(b))
  ELSE IF b[1] = 1 THEN ReadSomeString(Tail(b))
  ELSE Fail

\* Uuid's visitor takes a byte string of length 16 and no other.
ReadUuid(b) ==
  The({IF r.ok /\ Len(r.val) = 16 THEN r ELSE Fail : r \in {ReadByteVec(b)}})

ReadCustom(b) ==
  The({IF r.ok THEN Read(Custom(r.val), r.rest) ELSE Fail : r \in {ReadString(b)}})

ReadMessageType(b) ==
  The({IF ~i.ok \/ i.val = TooLarge \/ i.val >= Len(VariantNames) THEN Fail
       ELSE IF VariantNames[i.val + 1] = "Custom" THEN ReadCustom(i.rest)
       ELSE Read(Kind(VariantNames[i.val + 1]), i.rest) :
         i \in {ReadU32(b)}})

\* One entry read from the bytes after the map s.val and inserted into it.
ReadEntry(s) ==
  The({IF ~k.ok THEN Fail
       ELSE The({IF ~v.ok THEN Fail
                 ELSE Read([x \in (DOMAIN s.val) \cup {k.val} |->
                              IF x = k.val THEN v.val ELSE s.val[x]],
                           v.rest) :
                   v \in {ReadString(k.rest)}}) :
         k \in {ReadString(s.rest)}})

RECURSIVE ReadEntries(_, _)
ReadEntries(s, n) ==
  IF n = 0 \/ ~s.ok THEN s
  ELSE The({ReadEntries(t, n - 1) : t \in {ReadEntry(s)}})

ReadMap(b) ==
  The({IF ~n.ok \/ n.val = TooLarge THEN Fail
       ELSE ReadEntries(Read(<<>>, n.rest), n.val) :
         n \in {ReadU64(b)}})

\* The fields of Message in the order of the struct, and the reader of each.
MessageFields ==
  <<"id", "msg_type", "payload", "sender", "target", "timestamp", "metadata", "ttl">>

ReadField(name, b) ==
  CASE name = "id" -> ReadUuid(b)
    [] name = "msg_type" -> ReadMessageType(b)
    [] name = "payload" -> ReadByteVec(b)
    [] name = "sender" -> ReadOptionString(b)
    [] name = "target" -> ReadOptionString(b)
    [] name = "timestamp" -> ReadU64(b)
    [] name = "metadata" -> ReadMap(b)
    [] name = "ttl" -> ReadU32(b)

\* The fields `names` read after the fields s.val; the first failure ends it.
RECURSIVE ReadFields(_, _)
ReadFields(names, s) ==
  IF names = <<>> \/ ~s.ok THEN s
  ELSE The({IF ~r.ok THEN Fail
            ELSE ReadFields(Tail(names),
                            Read([x \in (DOMAIN s.val) \cup {Head(names)} |->
                                    IF x = Head(names) THEN r.val ELSE s.val[x]],
                                 r.rest)) :
              r \in {ReadField(Head(names), s.rest)}})

DecodeError == [ok |-> FALSE]

\* Message::from_bytes; bytes after the last field are ignored.
from_bytes(b) ==
  The({IF s.ok THEN [ok |-> TRUE, msg |-> s.val] ELSE DecodeError :
         s \in {ReadFields(MessageFields, Read(<<>>, b))}})

(***************************************************************************)
(* A message is built, serialized and deserialized.                        *)
(***************************************************************************)
Ttls == {10, 300}

NewMessage(id, msg_type, payload) ==
  /\ m_msg' = Some(MessageNew(id, msg_type, payload, now))
  /\ m_bytes' = None
  /\ m_decoded' = None
  /\ m_expired' = None
  /\ UNCHANGED notMsgVars

Building == m_msg # None /\ m_bytes = None

WithSender(sender) ==
  /\ Building
  /\ m_msg' = Some(with_sender(m_msg[1], sender))
  /\ m_expired' = None
  /\ UNCHANGED <<m_bytes, m_decoded, notMsgVars>>

WithTarget(target) ==
  /\ Building
  /\ m_msg' = Some(with_target(m_msg[1], target))
  /\ m_expired' = None
  /\ UNCHANGED <<m_bytes, m_decoded, notMsgVars>>

WithMetadata(key, value) ==
  /\ Building
  /\ m_msg' = Some(with_metadata(m_msg[1], key, value))
  /\ m_expired' = None
  /\ UNCHANGED <<m_bytes, m_decoded, notMsgVars>>

WithTtl(ttl) ==
  /\ Building
  /\ m_msg' = Some(with_ttl(m_msg[1], ttl))
  /\ m_expired' = None
  /\ UNCHANGED <<m_bytes, m_decoded, notMsgVars>>

ToBytes ==
  /\ Building
  /\ \E order \in IterationOrders(DOMAIN m_msg[1].metadata) :
       m_bytes' = Some(to_bytes(m_msg[1], order))
  /\ UNCHANGED <<m_msg, m_decoded, m_expired, notMsgVars>>

FromBytes ==
  /\ m_bytes # None /\ m_bytes[1].ok /\ m_decoded = None
  /\ m_decoded' = Some(from_bytes(m_bytes[1].bytes))
  /\ UNCHANGED <<m_msg, m_bytes, m_expired, notMsgVars>>

MsgNext ==
  \/ \E id \in Uuids, t \in MessageTypes, payload \in Payloads : NewMessage(id, t, payload)
  \/ \E sender \in {"n1"} : WithSender(sender)
  \/ \E target \in {"n2"} : WithTarget(target)
  \/ \E key \in {"k1", "k2"}, value \in {"v1", ""} : WithMetadata(key, value)
  \/ \E ttl \in Ttls : WithTtl(ttl)
  \/ ToBytes
  \/ FromBytes

(***************************************************************************)
(* SpecMsg: the message envelope alone.                                    *)
(***************************************************************************)
InitMsg == PeerIdle /\ DispIdle /\ MsgIdle /\ NetIdle /\ SinkIdle /\ LoopIdle

SpecMsg == InitMsg /\ [][MsgNext]_vars

(***************************************************************************)
(* Properties of the message envelope.                                     *)
(***************************************************************************)
\* C10: from_bytes(to_bytes(m)) succeeds and gives a message equal to m in every
\* field.
C10_RoundTrip ==
  m_decoded # None
    => /\ m_decoded[1].ok
       /\ m_decoded[1].msg.id = m_msg[1].id
       /\ m_decoded[1].msg.msg_type = m_msg[1].msg_type
       /\ m_decoded[1].msg.payload = m_msg[1].payload
       /\ m_decoded[1].msg.sender = m_msg[1].sender
       /\ m_decoded[1].msg.target = m_msg[1].target
       /\ m_decoded[1].msg.timestamp = m_msg[1].timestamp
       /\ m_decoded[1].msg.metadata = m_msg[1].metadata
       /\ m_decoded[1].msg.ttl = m_msg[1].ttl

\* A Custom message with a payload, a sender, a target, two metadata entries and
\* a ttl of its own has been serialized and deserialized.
C10_Witness ==
  /\ m_decoded # None
  /\ m_msg[1].msg_type = Custom("foo")
  /\ m_msg[1].payload # <<>>
  /\ m_msg[1].sender = Some("n1")
  /\ m_msg[1].target = Some("n2")
  /\ DOMAIN m_msg[1].metadata = {"k1", "k2"}
  /\ m_msg[1].ttl = 300

(***************************************************************************)
(* SpecExpiry: messages with short ttls, the clock and is_expired.         *)
(***************************************************************************)
\* The ttls with_ttl is given here: short enough for the clock to pass them.
ShortTtls == 0..(MaxTime - 1)

IsExpired ==
  /\ m_msg # None
  /\ \E r \in is_expired(m_msg[1], now) :
       m_expired' = Some([at |-> now, result |-> r, msg |-> m_msg[1]])
  /\ UNCHANGED <<m_msg, m_bytes, m_decoded, notMsgVars>>

ExpiryNext ==
  \/ \E id \in Uuids, t \in MessageTypes, payload \in Payloads : NewMessage(id, t, payload)
  \/ \E ttl \in ShortTtls : WithTtl(ttl)
  \/ IsExpired
  \/ Tick
  \/ ClockStepBack

InitExpiry == InitMsg

SpecExpiry == InitExpiry /\ [][ExpiryNext]_vars

\* C11: is_expired on a message created at t0 with ttl t gives false when the
\* current time is in [t0, t0 + t] and true when it is after t0 + t, and leaves
\* the message as it was.
C11_ExpiredAfterTtl ==
  (m_expired # None /\ unix_secs(m_expired[1].at) >= m_expired[1].msg.timestamp)
    => /\ m_expired[1].result
            = IF unix_secs(m_expired[1].at)
                   > m_expired[1].msg.timestamp + m_expired[1].msg.ttl
              THEN "true" ELSE "false"
       /\ m_msg = Some(m_expired[1].msg)

\* is_expired gave false at exactly t0 + t, for a ttl above zero.
C11_Witness ==
  /\ m_expired # None
  /\ m_expired[1].msg.ttl > 0
  /\ unix_secs(m_expired[1].at) = m_expired[1].msg.timestamp + m_expired[1].msg.ttl
  /\ m_expired[1].result = "false"

(***************************************************************************)
(* network.rs: broadcast_message and send_direct_message.                  *)
(***************************************************************************)
MaxCalls == 2         \* broadcast_message and send_direct_message calls

\* get_topic_for_message with the tag of a Custom type left out.
get_topic_for_message_no_tag(msg_type) ==
  CASE msg_type[1] \in {"BlockProposal", "BlockCommit", "BlockRequest", "BlockResponse"}
         -> "kanari/blocks"
    [] msg_type[1] \in {"TransactionBroadcast", "TransactionRequest", "TransactionResponse"}
         -> "kanari/transactions"
    [] msg_type[1] \in {"ConsensusProposal", "ConsensusVote", "ConsensusCommit"}
         -> "kanari/consensus"
    [] msg_type[1] \in {"NodeJoin", "NodeLeave", "NodeHeartbeat", "NodeInfo", "PeerDiscovery"}
         -> "kanari/node-discovery"
    [] msg_type[1] \in {"PeerConnection", "PeerDisconnection"} -> "kanari/peers"
    [] msg_type[1] = "Custom" -> "kanari/custom/"

\* get_topic_for_message with the peer kinds on the node-discovery topic.
get_topic_for_message_peers_with_nodes(msg_type) ==
  CASE msg_type[1] \in {"BlockProposal", "BlockCommit", "BlockRequest", "BlockResponse"}
         -> "kanari/blocks"
    [] msg_type[1] \in {"TransactionBroadcast", "TransactionRequest", "TransactionResponse"}
         -> "kanari/transactions"
    [] msg_type[1] \in {"ConsensusProposal", "ConsensusVote", "ConsensusCommit"}
         -> "kanari/consensus"
    [] msg_type[1] \in {"NodeJoin", "NodeLeave", "NodeHeartbeat", "NodeInfo", "PeerDiscovery",
                        "PeerConnection", "PeerDisconnection"}
         -> "kanari/node-discovery"
    [] msg_type[1] = "Custom" -> "kanari/custom/" \o msg_type[2]

get_topic_for_message(msg_type) ==
  CASE msg_type[1] \in {"BlockProposal", "BlockCommit", "BlockRequest", "BlockResponse"}
         -> "kanari/blocks"
    [] msg_type[1] \in {"TransactionBroadcast", "TransactionRequest", "TransactionResponse"}
         -> "kanari/transactions"
    [] msg_type[1] \in {"ConsensusProposal", "ConsensusVote", "ConsensusCommit"}
         -> "kanari/consensus"
    [] msg_type[1] \in {"NodeJoin", "NodeLeave", "NodeHeartbeat", "NodeInfo", "PeerDiscovery"}
         -> "kanari/node-discovery"
    [] msg_type[1] \in {"PeerConnection", "PeerDisconnection"} -> "kanari/peers"
    [] msg_type[1] = "Custom" -> "kanari/custom/" \o msg_type[2]

\* The topic send_direct_message publishes on.
direct_topic(peer_id) == "kanari/direct/" \o peer_id

\* What gossipsub's publish may answer: it accepts the message, or refuses it.
PublishErrors == {"MessageTooLarge", "InsufficientPeers", "Duplicate"}
PublishOutcomes == {"Ok"} \cup PublishErrors

\* publish_message putting an accepted message before those accepted earlier.
publish_message_front(pub, entry, outcome) ==
  IF outcome = "Ok" THEN [ok |-> TRUE, published |-> <<entry>> \o pub]
  ELSE [ok |-> FALSE, published |-> pub]

\* KanariBehaviour::publish_message, for the outcome gossipsub gives: an accepted
\* message joins, last, those accepted before it.
publish_message(pub, entry, outcome) ==
  IF outcome = "Ok" THEN [ok |-> TRUE, published |-> Append(pub, entry)]
  ELSE [ok |-> FALSE, published |-> pub]

\* What the call numbered `call` publishes on `topic`.
Entry(call, topic) == [call |-> call, topic |-> topic]

\* The body broadcast_message and send_direct_message share, with every publish
\* error answered by Ok.
publish_on_ignoring_errors(pub, topic, m, call, order, outcome) ==
  [ok |-> TRUE, published |-> publish_message(pub, Entry(call, topic), outcome).published]

\* The body broadcast_message and send_direct_message share: serialize, publish,
\* and an error of either returned to the caller.
publish_on(pub, topic, m, call, order, outcome) ==
  IF ~to_bytes(m, order).ok THEN [ok |-> FALSE, published |-> pub]
  ELSE publish_message(pub, Entry(call, topic), outcome)

broadcast_message(pub, m, call, order, outcome) ==
  publish_on(pub, get_topic_for_message(m.msg_type), m, call, order, outcome)

send_direct_message(pub, peer_id, m, call, order, outcome) ==
  publish_on(pub, direct_topic(peer_id), m, call, order, outcome)

NetCall(op, ok, outcome, topic, msg_type) ==
  [op |-> op, ok |-> ok, outcome |-> outcome, topic |-> topic, msg_type |-> msg_type]

BroadcastMessage ==
  /\ m_msg # None
  /\ n_calls < MaxCalls
  /\ \E order \in IterationOrders(DOMAIN m_msg[1].metadata), outcome \in PublishOutcomes :
       /\ published' = broadcast_message(published, m_msg[1], n_calls + 1, order,
                                         outcome).published
       /\ n_last' = NetCall("broadcast_message",
                            broadcast_message(published, m_msg[1], n_calls + 1, order,
                                              outcome).ok,
                            outcome, get_topic_for_message(m_msg[1].msg_type),
                            m_msg[1].msg_type)
  /\ n_calls' = n_calls + 1
  /\ UNCHANGED notNetVars

SendDirectMessage(peer_id) ==
  /\ m_msg # None
  /\ n_calls < MaxCalls
  /\ \E order \in IterationOrders(DOMAIN m_msg[1].metadata), outcome \in PublishOutcomes :
       /\ published' = send_direct_message(published, peer_id, m_msg[1], n_calls + 1,
                                           order, outcome).published
       /\ n_last' = NetCall("send_direct_message",
                            send_direct_message(published, peer_id, m_msg[1],
                                                n_calls + 1, order, outcome).ok,
                            outcome, direct_topic(peer_id), m_msg[1].msg_type)
  /\ n_calls' = n_calls + 1
  /\ UNCHANGED notNetVars

(***************************************************************************)
(* SpecNet: a caller builds messages and publishes them while the clock    *)
(* runs and a peer connects.                                               *)
(***************************************************************************)
NetMessageTypes == {Kind("BlockProposal"), Kind("PeerConnection"), Custom("foo")}

NetNext ==
  \/ \E id \in {CHOOSE u \in Uuids : TRUE}, t \in NetMessageTypes, payload \in {<<>>} :
       NewMessage(id, t, payload)
  \/ \E ttl \in ShortTtls : WithTtl(ttl)
  \/ BroadcastMessage
  \/ \E id \in {"p1"} : SendDirectMessage(id)
  \/ \E id \in {"p1"}, addr \in Addrs : ConnectionEstablished(id, addr)
  \/ Tick

InitNet ==
  /\ PeerInit /\ max_peers = 1
  /\ DispIdle /\ MsgIdle /\ NetIdle /\ SinkIdle /\ LoopIdle

SpecNet == InitNet /\ [][NetNext]_vars

(***************************************************************************)
(* Properties of the publish path.                                         *)
(***************************************************************************)
\* The ttl of m has run out at the clock reading t.
Expired(m, t) == unix_secs(t) > m.timestamp + m.ttl

\* C12: broadcast_message and send_direct_message called with a message whose ttl
\* has run out publish nothing.
C12_ExpiredNotPublished ==
  [][(m_msg # None /\ Expired(m_msg[1], now) /\ n_calls' = n_calls + 1)
       => published' = published]_vars

\* C14: broadcast_message and send_direct_message return an error exactly when the
\* publish is refused, publish the message exactly when they return success, and
\* leave the peer table as it was.
C14_PublishErrorsReturned ==
  [][n_calls' = n_calls + 1
       => /\ n_last'.ok <=> n_last'.outcome = "Ok"
          /\ published' = IF n_last'.ok
                          THEN Append(published, Entry(n_calls', n_last'.topic))
                          ELSE published
          /\ peers' = peers]_vars

\* send_direct_message has returned the error of a publish refused for want of
\* subscribers, after an earlier call was accepted, with a peer in the table.
C14_Witness ==
  /\ n_last.op = "send_direct_message" /\ ~n_last.ok
  /\ n_last.outcome = "InsufficientPeers"
  /\ Len(published) = 1
  /\ DOMAIN peers # {}

\* C15: the messages stand in the publish order in the order of the calls that
\* published them.
C15_PublishOrderIsCallOrder ==
  \A i, j \in 1..Len(published) : i < j => published[i].call < published[j].call

\* Two broadcasts have been accepted, of a BlockProposal and then of a Custom
\* message.
C15_Witness ==
  /\ Len(published) = 2
  /\ published[1].topic = "kanari/blocks"
  /\ published[2].topic = "kanari/custom/foo"

MaxEvents == 2        \* swarm events that arrive

SwarmEvent(type, peer, addr, data) ==
  [type |-> type, peer |-> peer, addr |-> addr, data |-> data]

\* The bytes of a gossipsub message: a serialized NodeJoin, and bytes that are no
\* serialized Message.
GoodGossip ==
  to_bytes(with_sender(MessageNew(CHOOSE u \in Uuids : TRUE, Kind("NodeJoin"), <<>>, 0),
                       "n1"),
           <<>>).bytes

BadGossip == <<1, 2, 3>>

\* The events of the model: connections of two peers, the end of one, a failed
\* dial, and the behaviour's event for a gossipsub message received.
LoopEvents ==
  {SwarmEvent("ConnectionEstablished", Some(id), "a1", None) : id \in {"p1", "p2"}}
    \cup {SwarmEvent("ConnectionClosed", Some("p1"), "", None),
          SwarmEvent("OutgoingConnectionError", Some("p1"), "", None),
          SwarmEvent("Behaviour", None, "", Some(GoodGossip)),
          SwarmEvent("Behaviour", None, "", Some(BadGossip))}

set_event_sender(sender) == Some(sender)

SetEventSender ==
  /\ run_pc = "idle"
  /\ event_sender = None
  /\ event_sender' = set_event_sender("events")
  /\ UNCHANGED <<sink, peerVars, dispVars, msgVars, netVars, loopVars, queryVars, startVars, connVars>>

\* connect_to_bootstrap_peers that returns the first dial error with `?`.
connect_to_bootstrap_peers_stopping(addrs, dial_ok) ==
  IF \A i \in 1..Len(addrs) : dial_ok[i]
  THEN [result |-> "Ok",
        dials |-> [i \in 1..Len(addrs) |-> [addr |-> addrs[i], ok |-> dial_ok[i]]]]
  ELSE [result |-> "Err",
        dials |-> [i \in 1..(CHOOSE k \in 1..Len(addrs) :
                               ~dial_ok[k] /\ \A j \in 1..(k - 1) : dial_ok[j]) |->
                     [addr |-> addrs[i], ok |-> dial_ok[i]]]]

\* connect_to_bootstrap_peers: it dials each address in the order of the
\* configuration, logs what swarm.dial returned (dial_ok[i] for the i-th address)
\* and returns Ok.
connect_to_bootstrap_peers(addrs, dial_ok) ==
  [result |-> "Ok",
   dials |-> [i \in 1..Len(addrs) |-> [addr |-> addrs[i], ok |-> dial_ok[i]]]]

\* Node::start fails on a node that is running.  P2PNetwork::start returns that
\* error and an error of connect_to_bootstrap_peers with `?`; what bootstrap()
\* returned (boot_ok) is logged, and asked for only with enable_kademlia.
start(running, addrs, kademlia, dial_ok, boot_ok) ==
  IF running
  THEN [result |-> "Err", dials |-> <<>>, bootstrap |-> None]
  ELSE IF connect_to_bootstrap_peers(addrs, dial_ok).result # "Ok"
       THEN [result |-> "Err", dials |-> connect_to_bootstrap_peers(addrs, dial_ok).dials,
             bootstrap |-> None]
       ELSE [result |-> "Ok", dials |-> connect_to_bootstrap_peers(addrs, dial_ok).dials,
             bootstrap |-> IF kademlia THEN Some(boot_ok) ELSE None]

\* P2PNetwork::start, once: it starts the local node, dials the bootstrap peers
\* and starts the DHT bootstrap.
StartNetwork ==
  /\ run_pc = "idle"
  /\ \E dial_ok \in [1..Len(bootstrap_peers) -> BOOLEAN],
        boot_ok \in (IF enable_kademlia /\ ~is_running THEN BOOLEAN ELSE {TRUE}) :
       /\ started' = Some(start(is_running, bootstrap_peers, enable_kademlia,
                                dial_ok, boot_ok))
       /\ run_pc' = IF started'[1].result = "Ok" THEN "started" ELSE "failed"
  /\ is_running' = TRUE
  /\ UNCHANGED <<cur, pending, n_arrived, n_taken, peerVars, dispVars, msgVars, netVars,
                 sinkVars, queryVars, bootstrap_peers, enable_kademlia, connVars>>

\* Node::stop on the local node.
StopNode ==
  /\ is_running
  /\ is_running' = FALSE
  /\ UNCHANGED <<run_pc, cur, pending, n_arrived, n_taken, peerVars, dispVars, msgVars,
                 netVars, sinkVars, queryVars, startVars, connVars>>

\* P2PNetwork::run is called: it enters its loop.
Run ==
  /\ run_pc = "started"
  /\ run_pc' = "select"
  /\ UNCHANGED <<is_running, cur, pending, n_arrived, n_taken, peerVars, dispVars,
                 msgVars, netVars, sinkVars, queryVars, startVars, connVars>>

\* The swarm has an event for the loop, numbered in the order of arrival.
EventArrives(e) ==
  /\ n_arrived < MaxEvents
  /\ n_arrived' = n_arrived + 1
  /\ pending' = Append(pending, [no |-> n_arrived + 1, ev |-> e])
  /\ UNCHANGED <<is_running, run_pc, cur, n_taken, peerVars, dispVars, msgVars, netVars,
                 sinkVars, queryVars, startVars, connVars>>

\* select! with its branches also taken while an event is being handled.
select_ready_while_handling(pc) == pc \in {"select", "event"}

\* The loop stands at its select!, where it takes the next event or the next tick.
select_ready(pc) == pc = "select"

\* select!: swarm.select_next_some() gives the next event.
SelectEvent ==
  /\ select_ready(run_pc)
  /\ pending # <<>>
  /\ cur' = Some(Head(pending))
  /\ pending' = Tail(pending)
  /\ n_taken' = n_taken + 1
  /\ run_pc' = "event"
  /\ UNCHANGED <<is_running, n_arrived, peerVars, dispVars, msgVars, netVars, sinkVars, queryVars, startVars, connVars>>

\* handle_swarm_event(e): the arm of its match for e.
handle_swarm_event(e) ==
  \/ /\ e.type = "ConnectionEstablished"
     /\ ConnectionEstablishedBody(e.peer[1], e.addr)
  \/ /\ e.type = "ConnectionClosed"
     /\ ConnectionClosedBody(e.peer[1])
  \/ /\ e.type = "OutgoingConnectionError"
     /\ OutgoingConnectionErrorBody(e.peer)
  \/ /\ e.type \notin {"ConnectionEstablished", "ConnectionClosed", "OutgoingConnectionError"}
     /\ OtherSwarmEventBody

\* The event taken is handled, and the loop is back at its select!.
HandleSwarmEvent ==
  /\ run_pc = "event"
  /\ handle_swarm_event(cur[1].ev)
  /\ run_pc' = "select"
  /\ cur' = None
  /\ UNCHANGED <<is_running, pending, n_arrived, n_taken, dispVars, msgVars, netVars,
                 queryVars, startVars, connVars>>

\* select!: cleanup_interval.tick() is ready.
SelectTick ==
  /\ select_ready(run_pc)
  /\ run_pc' = "tick"
  /\ UNCHANGED <<is_running, cur, pending, n_arrived, n_taken, peerVars, dispVars,
                 msgVars, netVars, sinkVars, queryVars, startVars, connVars>>

\* The cleanup of the tick, and the loop is back at its select!.
CleanupTick ==
  /\ run_pc = "tick"
  /\ CleanupBody
  /\ run_pc' = "select"
  /\ UNCHANGED <<is_running, cur, pending, n_arrived, n_taken, dispVars, msgVars,
                 netVars, sinkVars, queryVars, startVars, connVars>>

LoopNext ==
  \/ SetEventSender
  \/ StartNetwork
  \/ StopNode
  \/ Run
  \/ \E e \in LoopEvents : EventArrives(e)
  \/ SelectEvent
  \/ HandleSwarmEvent
  \/ SelectTick
  \/ CleanupTick
  \/ Tick

InitLoop ==
  /\ PeerInit /\ max_peers = 1
  /\ DispIdle /\ MsgIdle /\ NetIdle /\ SinkIdle /\ LoopIdle

(***************************************************************************)
(* SpecLoop: the event loop; SpecLoopFair: the loop goes on whenever it    *)
(* can, as the runtime keeps polling the task that runs it.                *)
(***************************************************************************)
SpecLoop == InitLoop /\ [][LoopNext]_vars

SpecLoopFair ==
  /\ InitLoop /\ [][LoopNext]_vars
  /\ WF_vars(Run) /\ WF_vars(SelectEvent) /\ WF_vars(HandleSwarmEvent)
  /\ WF_vars(SelectTick) /\ WF_vars(CleanupTick)

(***************************************************************************)
(* Properties of the event loop.                                           *)
(***************************************************************************)
\* The loop is finishing the handling of an event of the type `type`.
Handling(type) ==
  /\ run_pc = "event" /\ run_pc' = "select"
  /\ cur[1].ev.type = type

\* C13: a gossipsub message received whose bytes decode is handed to the protocol
\* dispatcher by the handling of its event.
C13_DecodedGossipDispatched ==
  [][(Handling("Behaviour") /\ cur[1].ev.data # None
        /\ from_bytes(cur[1].ev.data[1]).ok)
       => d_msg' = Some([msg_type |-> from_bytes(cur[1].ev.data[1]).msg.msg_type,
                         sender |-> from_bytes(cur[1].ev.data[1]).msg.sender])]_vars

\* C16: the loop takes the events one at a time in the order of their arrival, a
\* cleanup tick starts only at the select!, and from the taking of an event to the
\* end of its handling nothing else changes the peer table.
C16_OneEventAtATime ==
  [][/\ n_taken' # n_taken
          => /\ run_pc = "select"
             /\ n_taken' = n_taken + 1
             /\ cur' # None /\ cur'[1].no = n_taken'
     /\ (run_pc' = "tick" /\ run_pc # "tick") => run_pc = "select"
     /\ run_pc = "event"
          => /\ run_pc' \in {"event", "select"}
             /\ run_pc' = "event" => (peers' = peers /\ cur' = cur)]_vars

\* The second event is being handled, and a cleanup tick ran between the first
\* event and it.
C16_Witness ==
  /\ run_pc = "event"
  /\ cur[1].no = 2
  /\ last.op = "cleanup_stale_connections"

\* C17: once the local node is stopped while run is in its loop, run returns.
C17_StopEndsRun ==
  (run_pc \in {"select", "event", "tick"} /\ ~is_running) ~> (run_pc = "returned")

\* C18: the handling of a ConnectionEstablished event on a full table whose
\* records are all Connected adds no record and sends nothing to the event sink.
C18_RefusedConnectionNotAnnounced ==
  [][(Handling("ConnectionEstablished") /\ Full(peers) /\ NotConnected(peers) = {})
       => (peers' = peers /\ sink' = sink)]_vars

(***************************************************************************)
(* peer.rs: get_stats and calculate_average_reputation.  reputation_score  *)
(* is an i32 and the scores are summed as i32.                             *)
(***************************************************************************)
\* Iterator::sum over the scores in the order `order`, in a build with overflow
\* checks: it panics where a partial sum overflows.
RECURSIVE checked_sum(_, _, _)
checked_sum(tbl, order, acc) ==
  IF order = <<>> THEN [panic |-> FALSE, total |-> acc]
  ELSE IF Overflows(acc, tbl[Head(order)].info.reputation_score)
       THEN [panic |-> TRUE, total |-> 0]
       ELSE checked_sum(tbl, Tail(order), acc + tbl[Head(order)].info.reputation_score)

\* The same sum in a build without overflow checks: it wraps.
RECURSIVE wrapping_sum(_, _, _)
wrapping_sum(tbl, order, acc) ==
  IF order = <<>> THEN [panic |-> FALSE, total |-> acc]
  ELSE wrapping_sum(tbl, Tail(order), WrapAdd(acc, tbl[Head(order)].info.reputation_score))

\* The f64 `total as f64 / len as f64`, as the pair it is the quotient of.
Average(sum, len) ==
  [panic |-> sum.panic, num |-> sum.total, den |-> IF sum.panic THEN 1 ELSE len]

\* calculate_average_reputation, the HashMap iterated in the order `order`: what
\* the two builds give.
calculate_average_reputation(tbl, order) ==
  IF DOMAIN tbl = {} THEN {[panic |-> FALSE, num |-> 0, den |-> 1]}
  ELSE {Average(checked_sum(tbl, order, 0), Cardinality(DOMAIN tbl)),
        Average(wrapping_sum(tbl, order, 0), Cardinality(DOMAIN tbl))}

\* get_connected_peers that takes every peer that is not Disconnected.
get_connected_peers_not_disconnected(tbl) ==
  {id \in DOMAIN tbl : tbl[id].info.status # "Disconnected"}

\* The records the queries return are named by their ids: the order of the Vec is
\* the HashMap's, which is arbitrary.
get_connected_peers(tbl) == {id \in DOMAIN tbl : is_connected(tbl[id].info)}

get_peers_with_capability(tbl, capability) ==
  {id \in DOMAIN tbl :
     Contains(tbl[id].info.capabilities, capability) /\ is_connected(tbl[id].info)}

get_stats(tbl, maxp, order) ==
  {[panic |-> a.panic,
    total_peers |-> Cardinality(DOMAIN tbl),
    connected_peers |-> Cardinality(get_connected_peers(tbl)),
    disconnected_peers |-> Cardinality(DOMAIN tbl) - Cardinality(get_connected_peers(tbl)),
    max_peers |-> maxp,
    average_reputation |-> [num |-> a.num, den |-> a.den]] :
     a \in calculate_average_reputation(tbl, order)}

GetStats ==
  /\ \E order \in IterationOrders(DOMAIN peers) :
       \E r \in get_stats(peers, max_peers, order) : stats' = Some(r)
  /\ UNCHANGED <<found, peerVars, dispVars, msgVars, netVars, sinkVars, loopVars, startVars, connVars>>

\* The amounts increase_reputation and decrease_reputation are called with here,
\* each on a score of zero.
RepAmounts == {2, 5, I32Max}

IncreaseFromZero(id, amount) ==
  /\ id \in DOMAIN peers /\ peers[id].info.reputation_score = 0
  /\ \E o \in increase_reputation(peers, id, amount) :
       /\ peers' = o.peers
       /\ last' = Call("increase_reputation", ~o.panic, None, None, {})
  /\ UNCHANGED <<max_peers, connection_timeout, now, notPeerVars>>

DecreaseFromZero(id, amount) ==
  /\ id \in DOMAIN peers /\ peers[id].info.reputation_score = 0
  /\ \E o \in decrease_reputation(peers, id, amount) :
       /\ peers' = o.peers
       /\ last' = Call("decrease_reputation", ~o.panic, None, None, {})
  /\ UNCHANGED <<max_peers, connection_timeout, now, notPeerVars>>

(***************************************************************************)
(* SpecStats: a table of up to three peers, their scores, and get_stats.   *)
(***************************************************************************)
InitStats ==
  /\ peers = <<>>
  /\ max_peers = Cardinality(PeerIds)
  /\ connection_timeout = Timeout
  /\ now = 0
  /\ last = Call("new", TRUE, None, None, {})
  /\ DispIdle /\ MsgIdle /\ NetIdle /\ SinkIdle /\ LoopIdle

StatsNext ==
  \/ \E id \in PeerIds, addr \in Addrs : AddPeer(id, addr)
  \/ \E id \in PeerIds : RemovePeer(id)
  \/ \E id \in PeerIds, amount \in RepAmounts : IncreaseFromZero(id, amount)
  \/ \E id \in PeerIds : DecreaseFromZero(id, 3)
  \/ GetStats

SpecStats == InitStats /\ [][StatsNext]_vars

(***************************************************************************)
(* Properties of get_stats.                                                *)
(***************************************************************************)
High(n) == n \div 65536
Low(n) == n % 65536

\* The sums of the high and of the low halves of the scores of the ids: numbers
\* small enough to add.
RECURSIVE SumHigh(_, _)
SumHigh(tbl, ids) ==
  IF ids = {} THEN 0
  ELSE LET id == CHOOSE x \in ids : TRUE
       IN High(tbl[id].info.reputation_score) + SumHigh(tbl, ids \ {id})

RECURSIVE SumLow(_, _)
SumLow(tbl, ids) ==
  IF ids = {} THEN 0
  ELSE LET id == CHOOSE x \in ids : TRUE
       IN Low(tbl[id].info.reputation_score) + SumLow(tbl, ids \ {id})

\* n is the sum of the scores of tbl: the comparison is made on the two halves
\* of the numbers, as the sum may be beyond the numbers at hand.
IsSumOfScores(n, tbl) ==
  /\ High(n) = SumHigh(tbl, DOMAIN tbl) + High(SumLow(tbl, DOMAIN tbl))
  /\ Low(n) = Low(SumLow(tbl, DOMAIN tbl))

\* C20: get_stats gives an average_reputation of 0 for an empty table, and otherwise
\* the sum of the scores divided by the number of records.
C20_AverageIsSumOverCount ==
  [][stats' # stats
       => /\ ~stats'[1].panic
          /\ IF DOMAIN peers = {} THEN stats'[1].average_reputation.num = 0
             ELSE /\ stats'[1].average_reputation.den = Cardinality(DOMAIN peers)
                  /\ IsSumOfScores(stats'[1].average_reputation.num, peers)]_vars

(***************************************************************************)
(* SpecRep: increase_reputation and decrease_reputation on scores near     *)
(* zero and near the two ends of i32.                                      *)
(***************************************************************************)
\* The scores the calls are made on: within MaxRep of zero, of i32::MAX or of
\* i32::MIN.
NearLimit(score) ==
  \/ score >= 0 - MaxRep /\ score <= MaxRep
  \/ score >= I32Max - MaxRep
  \/ score <= I32Min + MaxRep

LimitAmounts == {1, I32Max}

IncreaseNearLimit(id, amount) ==
  /\ id \in DOMAIN peers /\ NearLimit(peers[id].info.reputation_score)
  /\ \E o \in increase_reputation(peers, id, amount) :
       /\ peers' = o.peers
       /\ last' = Call("increase_reputation", ~o.panic, None, None, {})
  /\ UNCHANGED <<max_peers, connection_timeout, now, notPeerVars>>

DecreaseNearLimit(id, amount) ==
  /\ id \in DOMAIN peers /\ NearLimit(peers[id].info.reputation_score)
  /\ \E o \in decrease_reputation(peers, id, amount) :
       /\ peers' = o.peers
       /\ last' = Call("decrease_reputation", ~o.panic, None, None, {})
  /\ UNCHANGED <<max_peers, connection_timeout, now, notPeerVars>>

InitRep ==
  /\ peers = <<>>
  /\ max_peers = Cardinality(FieldIds)
  /\ connection_timeout = Timeout
  /\ now = 0
  /\ last = Call("new", TRUE, None, None, {})
  /\ DispIdle /\ MsgIdle /\ NetIdle /\ SinkIdle /\ LoopIdle

RepNext ==
  \/ \E id \in FieldIds, addr \in Addrs : AddPeer(id, addr)
  \/ \E id \in FieldIds, amount \in LimitAmounts : IncreaseNearLimit(id, amount)
  \/ \E id \in FieldIds, amount \in LimitAmounts : DecreaseNearLimit(id, amount)

SpecRep == InitRep /\ [][RepNext]_vars

(***************************************************************************)
(* Properties of the reputation score.                                     *)
(***************************************************************************)
\* C21: the score is an unbounded integer: increase_reputation and
\* decrease_reputation on an existing peer never fail, and the score afterwards is
\* the score before plus the increase, or minus the decrease, in the integers.
C21_ScoreIsUnboundedSum ==
  [][\A id \in FieldIds, amount \in LimitAmounts :
       /\ IncreaseNearLimit(id, amount)
            => /\ last'.ok
               /\ ~Overflows(peers[id].info.reputation_score, amount)
               /\ peers'[id].info.reputation_score
                    = peers[id].info.reputation_score + amount
       /\ DecreaseNearLimit(id, amount)
            => /\ last'.ok
               /\ ~SubOverflows(peers[id].info.reputation_score, amount)
               /\ peers'[id].info.reputation_score
                    = peers[id].info.reputation_score - amount]_vars

(***************************************************************************)
(* SpecTable: a table that stays below its capacity, the calls that change *)
(* which peers it holds, their status and their capabilities.              *)
(***************************************************************************)
InitTable == InitStats

TableNext ==
  \/ \E id \in FieldIds, addr \in Addrs : AddPeer(id, addr)
  \/ \E id \in FieldIds : RemovePeer(id)
  \/ \E id \in FieldIds, s \in Statuses : UpdatePeerStatus(id, s)
  \/ \E id \in FieldIds, ni \in NodeInfos : UpdatePeerInfo(id, ni)
  \/ Tick

SpecTable == InitTable /\ [][TableNext]_vars

\* C22: add_peer with an id the table holds, on a table below its capacity,
\* succeeds and replaces the record of that id with the new one: get_peer gives the
\* new record, the table holds the same ids, and every other record is as it was.
C22_AddReplacesSameId ==
  [][\A id \in FieldIds, addr \in Addrs :
       (AddPeer(id, addr) /\ id \in DOMAIN peers
          /\ Cardinality(DOMAIN peers) < max_peers)
         => /\ last'.ok
            /\ get_peer(peers', id) = Some(PeerNew(id, addr, now))
            /\ DOMAIN peers' = DOMAIN peers
            /\ Cardinality(DOMAIN peers') = Cardinality(DOMAIN peers)
            /\ \A q \in DOMAIN peers \ {id} : peers'[q] = peers[q]]_vars

\* add_peer has just displaced a Connected record of the same id, seen earlier,
\* with a new one, in a table that holds another record and is below its capacity.
C22_Witness ==
  /\ last.op = "add_peer" /\ last.ok /\ last.evicted = None /\ last.removed # None
  /\ Cardinality(DOMAIN peers) = 2 /\ Cardinality(DOMAIN peers) < max_peers
  /\ last.removed[1].info.id \in DOMAIN peers
  /\ last.removed[1].info.status = "Connected"
  /\ last.removed[1].info.last_seen < now
  /\ peers[last.removed[1].info.id] = PeerNew(last.removed[1].info.id, "a1", now)

\* C23: remove_peer of an id the table holds returns the record of that id, after
\* which get_peer of the id gives nothing and every other record is as it was; of
\* an id the table does not hold it returns None and leaves the table as it was.
C23_RemoveReturnsRecord ==
  [][\A id \in PeerIds :
       (last'.op = "remove_peer" /\ RemovePeer(id))
         => IF id \in DOMAIN peers
            THEN /\ last'.removed = Some(peers[id])
                 /\ get_peer(peers', id) = None
                 /\ DOMAIN peers' = DOMAIN peers \ {id}
                 /\ \A q \in DOMAIN peers \ {id} : peers'[q] = peers[q]
            ELSE /\ last'.removed = None
                 /\ peers' = peers]_vars

\* remove_peer has just returned a Connected record, and another record is left.
C23_Witness ==
  /\ last.op = "remove_peer" /\ last.removed # None
  /\ last.removed[1].info.status = "Connected"
  /\ last.removed[1].info.id \notin DOMAIN peers
  /\ peers # <<>>

\* The five calls that change a record, as `last` names them.
RecordCalls ==
  {"update_peer_status", "update_peer_info", "update_peer_latency",
   "increase_reputation", "decrease_reputation"}

\* A call of one of them with the id `id`.
ChangesRecord(id) ==
  \/ \E st \in Statuses : UpdatePeerStatus(id, st)
  \/ \E ni \in NodeInfos : UpdatePeerInfo(id, ni)
  \/ UpdatePeerLatency(id, 1)
  \/ IncreaseReputation(id, 1)
  \/ DecreaseReputation(id, 1)

\* C24: update_peer_status, update_peer_info, update_peer_latency,
\* increase_reputation and decrease_reputation with an id the table does not hold
\* leave the table as it was and raise no error.
C24_UnknownIdIsNoOp ==
  [][\A id \in PeerIds :
       (id \notin DOMAIN peers /\ last'.op \in RecordCalls /\ ChangesRecord(id))
         => (peers' = peers /\ last'.ok)]_vars

\* One of the calls made with p1 or p2 alone has just returned, and the table
\* holds p3 alone: the id of the call is not in the table, and was not before it.
C24_Witness ==
  /\ last.op \in RecordCalls \ {"update_peer_status"}
  /\ last.ok
  /\ DOMAIN peers = {"p3"}

\* The table tbl2 is the table tbl but for the field `field` of the record of id.
OnlyFieldDiffers(tbl, tbl2, id, field) ==
  /\ DOMAIN tbl2 = DOMAIN tbl
  /\ \A q \in DOMAIN tbl \ {id} : tbl2[q] = tbl[q]
  /\ tbl2[id].node_info = tbl[id].node_info
  /\ \A f \in DOMAIN tbl[id].info \ {field} : tbl2[id].info[f] = tbl[id].info[f]

\* C25 as stated: on a peer the table holds, update_peer_latency changes its
\* latency alone, and increase_reputation and decrease_reputation its reputation
\* score alone: every other field of the record and every other record stay.
C25_OnlyTheNamedField ==
  [][\A id \in FieldIds :
       id \in DOMAIN peers
         => /\ (last'.op = "update_peer_latency" /\ UpdatePeerLatency(id, 1))
                 => OnlyFieldDiffers(peers, peers', id, "latency")
            /\ (last'.op \in {"increase_reputation", "decrease_reputation"}
                  /\ (IncreaseReputation(id, 1) \/ DecreaseReputation(id, 1)))
                 => OnlyFieldDiffers(peers, peers', id, "reputation_score")]_vars

\* C25, amended: on a peer the table holds, update_peer_latency sets its latency
\* and stamps its last_seen with the current time, and changes nothing else;
\* increase_reputation and decrease_reputation change its reputation score alone.
C25_LatencyStampsLastSeen ==
  [][\A id \in FieldIds :
       id \in DOMAIN peers
         => /\ (last'.op = "update_peer_latency" /\ UpdatePeerLatency(id, 1))
                 => peers' = [peers EXCEPT ![id].info.latency = Some(1),
                                           ![id].info.last_seen = now]
            /\ (last'.op = "increase_reputation" /\ IncreaseReputation(id, 1))
                 => /\ OnlyFieldDiffers(peers, peers', id, "reputation_score")
                    /\ peers'[id].info.reputation_score
                         = peers[id].info.reputation_score + 1
            /\ (last'.op = "decrease_reputation" /\ DecreaseReputation(id, 1))
                 => /\ OnlyFieldDiffers(peers, peers', id, "reputation_score")
                    /\ peers'[id].info.reputation_score
                         = peers[id].info.reputation_score - 1]_vars

\* update_peer_latency has just returned and a record shows its stamp: connected
\* at time 0 and never given a node info, it was last seen now, later than that.
C25_Witness ==
  /\ last.op = "update_peer_latency" /\ now > 0
  /\ \E id \in DOMAIN peers :
       /\ peers[id].info.latency = Some(1)
       /\ peers[id].info.last_seen = now
       /\ peers[id].info.connection_time = Some(0)
       /\ peers[id].info.version = "unknown"

\* C26: on a peer the table holds, update_peer_status(id, Connected) sets its
\* status to Connected and stamps its connection_time and its last_seen with the
\* current time; update_peer_status(id, Disconnected) sets its status to
\* Disconnected and clears its connection_time.
C26_StatusTransitionsStamp ==
  [][\A id \in FieldIds :
       id \in DOMAIN peers
         => /\ UpdatePeerStatus(id, "Connected")
                 => /\ peers'[id].info.status = "Connected"
                    /\ peers'[id].info.connection_time = Some(now)
                    /\ peers'[id].info.last_seen = now
            /\ UpdatePeerStatus(id, "Disconnected")
                 => /\ peers'[id].info.status = "Disconnected"
                    /\ peers'[id].info.connection_time = None]_vars

\* update_peer_status has just connected a peer at a time later than the clock's
\* start, in a table that also holds a peer it disconnected earlier.
C26_Witness ==
  /\ last.op = "update_peer_status" /\ now > 0
  /\ \E id \in DOMAIN peers :
       /\ peers[id].info.status = "Connected"
       /\ peers[id].info.connection_time = Some(now)
       /\ peers[id].info.last_seen = now
  /\ \E id \in DOMAIN peers :
       /\ peers[id].info.status = "Disconnected"
       /\ peers[id].info.connection_time = None
       /\ peers[id].info.version # "unknown"

(***************************************************************************)
(* SpecQuery: the queries of the peer manager, on tables of peers of every *)
(* status, with and without capabilities.                                  *)
(***************************************************************************)
QueryCapabilities == {"block_validation", "consensus"}

Found(op, capability, ids) == [op |-> op, capability |-> capability, ids |-> ids]

GetConnectedPeers ==
  /\ found' = Some(Found("get_connected_peers", "", get_connected_peers(peers)))
  /\ UNCHANGED <<stats, peerVars, dispVars, msgVars, netVars, sinkVars, loopVars, startVars, connVars>>

GetPeersWithCapability(capability) ==
  /\ found' = Some(Found("get_peers_with_capability", capability,
                         get_peers_with_capability(peers, capability)))
  /\ UNCHANGED <<stats, peerVars, dispVars, msgVars, netVars, sinkVars, loopVars, startVars, connVars>>

InitQuery == InitStats

QueryNext ==
  \/ \E id \in FieldIds, addr \in Addrs : AddPeer(id, addr)
  \/ \E id \in FieldIds, s \in Statuses : UpdatePeerStatus(id, s)
  \/ \E id \in FieldIds, ni \in NodeInfos : UpdatePeerInfo(id, ni)
  \/ GetConnectedPeers
  \/ \E capability \in QueryCapabilities : GetPeersWithCapability(capability)
  \/ GetStats

SpecQuery == InitQuery /\ [][QueryNext]_vars

\* The peers of the table with the status Connected.
Connected(tbl) == {id \in DOMAIN tbl : tbl[id].info.status = "Connected"}

\* C27: get_connected_peers returns exactly the records with the status Connected,
\* get_peers_with_capability(cap) exactly the Connected records whose capabilities
\* hold cap, and get_stats reports the number of records as the total, the number
\* of Connected records as connected and their difference as disconnected.
C27_QueriesAgreeWithTable ==
  [][/\ found' # found
          => /\ found'[1].op = "get_connected_peers"
                  => found'[1].ids = Connected(peers)
             /\ found'[1].op = "get_peers_with_capability"
                  => found'[1].ids =
                       {id \in Connected(peers) :
                          \E i \in DOMAIN peers[id].info.capabilities :
                            peers[id].info.capabilities[i] = found'[1].capability}
     /\ stats' # stats
          => /\ stats'[1].total_peers = Cardinality(DOMAIN peers)
             /\ stats'[1].connected_peers = Cardinality(Connected(peers))
             /\ stats'[1].disconnected_peers
                  = Cardinality(DOMAIN peers) - Cardinality(Connected(peers))]_vars

\* get_peers_with_capability has just returned one of two peers that advertise the
\* capability, the Connected one, and the last get_stats reported one connected
\* and one disconnected peer of two.
C27_Witness ==
  /\ found # None /\ found[1].op = "get_peers_with_capability"
  /\ Cardinality(found[1].ids) = 1
  /\ Cardinality(DOMAIN peers) = 2
  /\ \A id \in DOMAIN peers : peers[id].info.capabilities # <<>>
  /\ \E id \in DOMAIN peers : peers[id].info.status = "Failed"
  /\ stats # None
  /\ stats[1].total_peers = 2 /\ stats[1].connected_peers = 1
  /\ stats[1].disconnected_peers = 1

(***************************************************************************)
(* SpecDiscovery: the default protocol manager under the node messages of  *)
(* two senders and of none.                                                *)
(***************************************************************************)
DiscoveryMessages ==
  {[msg_type |-> Kind(k), sender |-> s] :
     k \in {"NodeJoin", "NodeLeave", "NodeHeartbeat"}, s \in {None, Some("n1"), Some("n2")}}

InitDiscovery == InitDispatch /\ protocols = ProtocolManagerDefault

DiscoveryNext ==
  \/ \E msg \in DiscoveryMessages : HandleMessage(msg)
  \/ CallHandler
  \/ HandlerReturn
  \/ HandleMessageReturn

SpecDiscovery == InitDiscovery /\ [][DiscoveryNext]_vars

NoDuplicates(seq) == \A i, j \in 1..Len(seq) : seq[i] = seq[j] => i = j

\* The NodeDiscovery handler returns from the message in this step.
DiscoveryHandles(msg) ==
  /\ d_pc = "await" /\ d_pc' # "await"
  /\ protocols[d_idx] = "node_discovery"
  /\ d_msg = Some(msg)

\* C28: known_nodes never holds an id twice.  NodeJoin appends the sender when the
\* list does not hold it and changes nothing when it does, NodeLeave removes the
\* sender and keeps the others in their order, and a message without a sender
\* or of another kind changes nothing; nothing else changes the list.
C28_KnownNodesNoDuplicates ==
  [][/\ NoDuplicates(known_nodes')
     /\ known_nodes' # known_nodes => \E msg \in DiscoveryMessages : DiscoveryHandles(msg)
     /\ \A msg \in DiscoveryMessages :
          DiscoveryHandles(msg)
            => CASE msg.sender = None -> known_nodes' = known_nodes
                 [] msg.sender # None /\ msg.msg_type = Kind("NodeJoin") ->
                      IF \E i \in 1..Len(known_nodes) : known_nodes[i] = msg.sender[1]
                      THEN known_nodes' = known_nodes
                      ELSE known_nodes' = known_nodes \o <<msg.sender[1]>>
                 [] msg.sender # None /\ msg.msg_type = Kind("NodeLeave") ->
                      /\ \A i \in 1..Len(known_nodes') : known_nodes'[i] # msg.sender[1]
                      /\ known_nodes' = SelectSeq(known_nodes, LAMBDA n : n # msg.sender[1])
                 [] OTHER -> known_nodes' = known_nodes]_vars

\* The handler has returned from a NodeJoin of n1, and the list holds n1 once,
\* before n2: n1 was in the list when n2 joined, so this NodeJoin is a repeated one.
C28_Witness ==
  /\ d_pc = "done" /\ Len(d_outs) = 1
  /\ d_msg = Some([msg_type |-> Kind("NodeJoin"), sender |-> Some("n1")])
  /\ known_nodes = <<"n1", "n2">>

(***************************************************************************)
(* SpecBuild: Message::new and the chains of its builders.                 *)
(***************************************************************************)
BuildNext ==
  \/ \E id \in Uuids, t \in NetMessageTypes, payload \in {<<>>} : NewMessage(id, t, payload)
  \/ \E sender \in {"n1"} : WithSender(sender)
  \/ \E target \in {"n2"} : WithTarget(target)
  \/ \E key \in {"k1", "k2"}, value \in {"v1", ""} : WithMetadata(key, value)
  \/ \E ttl \in Ttls : WithTtl(ttl)

InitBuild == InitMsg

SpecBuild == InitBuild /\ [][BuildNext]_vars

\* The message m2 is the message m but for the field `field`.
OnlyMessageFieldDiffers(m, m2, field) ==
  \A f \in DOMAIN m \ {field} : m2[f] = m[f]

\* C29: Message::new gives a message with ttl 10, no metadata, no sender and no
\* target; with_sender, with_target, with_metadata and with_ttl set the field they
\* name and leave every other field, the id among them, as it was.
C29_BuildersChangeOneField ==
  [][/\ \A id \in Uuids, t \in NetMessageTypes, payload \in {<<>>} :
          NewMessage(id, t, payload)
            => /\ m_msg'[1].ttl = 10
               /\ DOMAIN m_msg'[1].metadata = {}
               /\ m_msg'[1].sender = None
               /\ m_msg'[1].target = None
               /\ m_msg'[1].id = id /\ m_msg'[1].msg_type = t
               /\ m_msg'[1].payload = payload
     /\ \A sender \in {"n1"} :
          WithSender(sender)
            => /\ m_msg'[1].sender = Some(sender)
               /\ OnlyMessageFieldDiffers(m_msg[1], m_msg'[1], "sender")
     /\ \A target \in {"n2"} :
          WithTarget(target)
            => /\ m_msg'[1].target = Some(target)
               /\ OnlyMessageFieldDiffers(m_msg[1], m_msg'[1], "target")
     /\ \A key \in {"k1", "k2"}, value \in {"v1", ""} :
          WithMetadata(key, value)
            => /\ DOMAIN m_msg'[1].metadata = DOMAIN m_msg[1].metadata \cup {key}
               /\ m_msg'[1].metadata[key] = value
               /\ \A k \in DOMAIN m_msg[1].metadata \ {key} :
                    m_msg'[1].metadata[k] = m_msg[1].metadata[k]
               /\ OnlyMessageFieldDiffers(m_msg[1], m_msg'[1], "metadata")
     /\ \A ttl \in Ttls :
          WithTtl(ttl)
            => /\ m_msg'[1].ttl = ttl
               /\ OnlyMessageFieldDiffers(m_msg[1], m_msg'[1], "ttl")]_vars

\* A message after a chain of the four builders, with_sender the last of them to
\* have changed anything it could have cleared: it has a sender, a target, two
\* metadata entries and a ttl that is not the default.
C29_Witness ==
  /\ m_msg # None /\ m_bytes = None
  /\ m_msg[1].sender = Some("n1")
  /\ m_msg[1].target = Some("n2")
  /\ DOMAIN m_msg[1].metadata = {"k1", "k2"}
  /\ m_msg[1].ttl = 300

(***************************************************************************)
(* SpecStart: P2PNetwork::start under every configuration of up to two     *)
(* bootstrap peers, on a node that is running or not.                      *)
(***************************************************************************)
BootstrapLists == {<<>>, <<"b1">>, <<"b1", "b2">>, <<"b2", "b1">>}

InitStart ==
  /\ PeerInit /\ max_peers = 1
  /\ DispIdle /\ MsgIdle /\ NetIdle /\ SinkIdle
  /\ is_running \in BOOLEAN
  /\ run_pc = "idle"
  /\ cur = None
  /\ pending = <<>>
  /\ n_arrived = 0
  /\ n_taken = 0
  /\ stats = None
  /\ found = None
  /\ bootstrap_peers \in BootstrapLists
  /\ enable_kademlia \in BOOLEAN
  /\ num_established = [id \in PeerIds |-> 0]
  /\ started = None

StartNext ==
  \/ SetEventSender
  \/ StartNetwork
  \/ StopNode
  \/ Run
  \/ Tick

SpecStart == InitStart /\ [][StartNext]_vars

\* C30: start() on a node that is not running returns Ok whatever the dials of the
\* bootstrap peers and the DHT bootstrap return, and it dials every configured
\* bootstrap peer, in the order of the configuration, whatever the earlier dials
\* returned.
C30_StartSurvivesDialFailures ==
  [][(StartNetwork /\ ~is_running)
       => /\ started'[1].result = "Ok"
          /\ Len(started'[1].dials) = Len(bootstrap_peers)
          /\ \A i \in 1..Len(bootstrap_peers) :
               started'[1].dials[i].addr = bootstrap_peers[i]
          /\ run_pc' = "started"]_vars

\* start() has returned Ok after the dial of the first of two bootstrap peers
\* failed, the second was dialed all the same, and the DHT bootstrap failed.
C30_Witness ==
  /\ started # None /\ started[1].result = "Ok"
  /\ Len(started[1].dials) = 2
  /\ ~started[1].dials[1].ok
  /\ started[1].dials[2].addr = bootstrap_peers[2]
  /\ started[1].bootstrap = Some(FALSE)

(***************************************************************************)
(* network.rs: the status of a record under the swarm events.              *)
(***************************************************************************)
\* The peers that hold a record of the status s.
WithStatus(tbl, s) == {id \in DOMAIN tbl : tbl[id].info.status = s}

\* C31: the swarm events move a record from Disconnected or Failed to Connecting
\* and from Connecting to Connected, so that each status is reached: a record
\* that the handling of an event leaves Connected was Connecting before it.
C31_ConnectedComesFromConnecting ==
  [][\A id \in WithStatus(peers', "Connected") :
       (run_pc = "event" /\ id \notin WithStatus(peers, "Connected"))
         => id \in WithStatus(peers, "Connecting")]_vars

\* C32: the handling of a ConnectionEstablished event for p whose add_peer
\* succeeds leaves p in the table, Connected, with the remote address of the
\* event; that of a ConnectionClosed event leaves a record of p Disconnected and
\* in the table; that of an OutgoingConnectionError naming p leaves a record of p
\* Failed.  With an event sender set, the handling of an established or closed
\* event appends exactly one PeerConnected(p) or PeerDisconnected(p) to what was
\* sent before, and the handling of any other event sends nothing.
C32_EventsSetStatusAndNotify ==
  [][/\ (Handling("ConnectionEstablished") /\ last'.ok)
          => /\ cur[1].ev.peer[1] \in DOMAIN peers'
             /\ peers'[cur[1].ev.peer[1]].info.status = "Connected"
             /\ peers'[cur[1].ev.peer[1]].info.address = cur[1].ev.addr
     /\ (Handling("ConnectionClosed") /\ cur[1].ev.peer[1] \in DOMAIN peers)
          => /\ DOMAIN peers' = DOMAIN peers
             /\ peers'[cur[1].ev.peer[1]].info.status = "Disconnected"
     /\ (Handling("OutgoingConnectionError") /\ cur[1].ev.peer # None
           /\ cur[1].ev.peer[1] \in DOMAIN peers)
          => /\ DOMAIN peers' = DOMAIN peers
             /\ peers'[cur[1].ev.peer[1]].info.status = "Failed"
     /\ (Handling("ConnectionEstablished") /\ event_sender # None)
          => sink' = Append(sink, NetworkEvent("PeerConnected", cur[1].ev.peer[1]))
     /\ (Handling("ConnectionClosed") /\ event_sender # None)
          => sink' = Append(sink, NetworkEvent("PeerDisconnected", cur[1].ev.peer[1]))
     /\ (Handling("OutgoingConnectionError") \/ Handling("Behaviour"))
          => sink' = sink]_vars

\* p1 was connected and its connection was closed, with an event sender set: its
\* record is Disconnected and the two notifications were sent in that order.
C32_Witness ==
  /\ last.op = "ConnectionClosed"
  /\ "p1" \in DOMAIN peers /\ peers["p1"].info.status = "Disconnected"
  /\ peers["p1"].info.address = "a1"
  /\ sink = <<NetworkEvent("PeerConnected", "p1"), NetworkEvent("PeerDisconnected", "p1")>>

(***************************************************************************)
(* SpecTopic: messages of every type are built and broadcast.              *)
(***************************************************************************)
TopicNext ==
  \/ \E id \in {CHOOSE u \in Uuids : TRUE}, t \in MessageTypes, payload \in {<<>>} :
       NewMessage(id, t, payload)
  \/ BroadcastMessage

InitTopic == InitNet

SpecTopic == InitTopic /\ [][TopicNext]_vars

\* The families of message types: the block, transaction and consensus types,
\* the node types with PeerDiscovery, the two peer types, and the Custom types.
Family(t) ==
  CASE t \in BlockSyncSupported -> "block"
    [] t \in TransactionPoolSupported -> "transaction"
    [] t \in ConsensusSupported -> "consensus"
    [] t \in {Kind("PeerConnection"), Kind("PeerDisconnection")} -> "peer"
    [] t \in NodeDiscoverySupported -> "node"
    [] OTHER -> "custom"

\* C33: the topic a broadcast resolves is that of every other type of the family
\* of its message type and of no type of another family; it is the
\* node-discovery topic for the node types and PeerDiscovery and the peers topic
\* for PeerConnection and PeerDisconnection; and two Custom types of distinct tags
\* resolve to distinct topics.
C33_TopicsPartitionTheKinds ==
  n_last.op = "broadcast_message"
    => /\ \A t \in MessageTypes :
            /\ (Family(t) = Family(n_last.msg_type) /\ Family(t) # "custom")
                 => get_topic_for_message(t) = n_last.topic
            /\ Family(t) # Family(n_last.msg_type)
                 => get_topic_for_message(t) # n_last.topic
            /\ (Family(t) = "custom" /\ Family(n_last.msg_type) = "custom"
                  /\ t # n_last.msg_type)
                 => get_topic_for_message(t) # n_last.topic
       /\ Family(n_last.msg_type) = "node" => n_last.topic = "kanari/node-discovery"
       /\ Family(n_last.msg_type) = "peer" => n_last.topic = "kanari/peers"
       /\ n_last.ok => published[Len(published)].topic = n_last.topic

\* A PeerConnection message was broadcast on the peers topic after a message of
\* another type went out on another topic.
C33_Witness ==
  /\ n_last.op = "broadcast_message" /\ n_last.ok
  /\ n_last.msg_type = Kind("PeerConnection")
  /\ Len(published) = 2
  /\ published[1].topic = "kanari/node-discovery"
  /\ published[2].topic = "kanari/peers"

(***************************************************************************)
(* behavior.rs: KanariBehaviour::new, the topics subscribed to.            *)
(***************************************************************************)
topics == {"kanari/blocks", "kanari/transactions", "kanari/consensus", "kanari/node-discovery"}

\* C34: the topic a broadcast resolves for a message of a type other than Custom
\* is one of the topics the behaviour subscribed to when it was built.
C34_BuiltinTopicsSubscribed ==
  (n_last.op = "broadcast_message" /\ Family(n_last.msg_type) # "custom")
    => n_last.topic \in topics

(***************************************************************************)
(* SpecConn: the swarm opens and closes connections, several to one peer,  *)
(* and reports each as an event; num_established is its count of the       *)
(* connections open to a peer, which the handlers do not read.             *)
(***************************************************************************)
MaxConns == 2         \* connections open to one peer at a time

ConnIds == {"p1", "p2"}

\* A connection to the peer is established, and the event is handled.
ConnectionOpens(id, addr) ==
  /\ num_established[id] < MaxConns
  /\ num_established' = [num_established EXCEPT ![id] = @ + 1]
  /\ ConnectionEstablishedBody(id, addr)
  /\ UNCHANGED <<dispVars, msgVars, netVars, loopVars, queryVars, startVars>>

\* One of the connections open to the peer closes, and the event is handled.
ConnectionCloses(id) ==
  /\ num_established[id] > 0
  /\ num_established' = [num_established EXCEPT ![id] = @ - 1]
  /\ ConnectionClosedBody(id)
  /\ UNCHANGED <<dispVars, msgVars, netVars, loopVars, queryVars, startVars>>

ConnNext ==
  \/ \E id \in ConnIds, addr \in Addrs : ConnectionOpens(id, addr)
  \/ \E id \in ConnIds : ConnectionCloses(id)
  \/ CleanupStaleConnections
  \/ Tick

InitConn == Init

SpecConn == InitConn /\ [][ConnNext]_vars

\* C35: a record is Connected exactly while a connection to its peer is open.
C35_ConnectedWhileAnyConnectionOpen ==
  \A id \in DOMAIN peers :
    peers[id].info.status = "Connected" <=> num_established[id] > 0

\* C36: the connection_time of a record is set exactly when its status is
\* Connected.
C36_ConnectionTimeIffConnected ==
  \A id \in DOMAIN peers :
    peers[id].info.connection_time # None <=> peers[id].info.status = "Connected"

\* C37: add_peer of an id the table holds succeeds and leaves the table with the
\* ids it held, whatever the number of records.
C37_ReAddNeedsNoRoom ==
  [][\A id \in PeerIds, addr \in Addrs :
       (last'.op = "add_peer" /\ id \in DOMAIN peers /\ AddPeer(id, addr))
         => /\ last'.ok
            /\ DOMAIN peers' = DOMAIN peers]_vars

(***************************************************************************)
(* SpecLoopClock: the fair event loop, with a clock that goes on.  The     *)
(* interval of run fires every 60 s and select! takes a ready branch, so   *)
(* the tick is taken whenever the loop stays at its select!.               *)
(***************************************************************************)
SpecLoopClock == SpecLoopFair /\ WF_vars(Tick)

\* run is in its loop.
InLoop == run_pc \in {"select", "event", "tick"}

\* The record of id is not Connected, and the clock of the model can still pass
\* its last_seen by more than connection_timeout.
Lapsing(id) ==
  /\ id \in DOMAIN peers
  /\ peers[id].info.status \in {"Disconnected", "Failed"}
  /\ peers[id].info.last_seen + connection_timeout < MaxTime

\* C38: with run in its loop, a record that is Disconnected or Failed is in the
\* end removed from the table, unless its peer connects again before.
C38_LapsedPeerRemoved ==
  \A id \in {"p1", "p2"} :
    (InLoop /\ Lapsing(id))
      ~> (id \notin DOMAIN peers \/ peers[id].info.status = "Connected")

\* The cleanup of a tick has just removed the record of p1, which the close of
\* its connection had left Disconnected.
C38_Witness ==
  /\ run_pc = "select"
  /\ last.op = "cleanup_stale_connections" /\ last.stale = {"p1"}
  /\ "p1" \notin DOMAIN peers
  /\ n_taken = 2

\* C39: is_expired called with the clock behind the timestamp of the message
\* returns, and returns false.
C39_FutureMessageNotExpired ==
  (m_expired # None /\ unix_secs(m_expired[1].at) < m_expired[1].msg.timestamp)
    => m_expired[1].result = "false"

(***************************************************************************)
(* SpecReconnect: peers that have a score, a latency and a NodeInfo        *)
(* connect, disconnect and connect again.                                  *)
(***************************************************************************)
ReconnectNext ==
  \/ \E id \in FieldIds, addr \in Addrs : ConnectionEstablished(id, addr)
  \/ \E id \in FieldIds : ConnectionClosed(id)
  \/ \E id \in FieldIds : OutgoingConnectionError(Some(id))
  \/ \E id \in FieldIds, ni \in NodeInfos : UpdatePeerInfo(id, ni)
  \/ \E id \in FieldIds : UpdatePeerLatency(id, 1)
  \/ \E id \in FieldIds : IncreaseReputation(id, 1)
  \/ \E id \in FieldIds : DecreaseReputation(id, 1)

InitReconnect == Init

SpecReconnect == InitReconnect /\ [][ReconnectNext]_vars

\* The swarm events whose handlers change the peer table.
TransportEvents == {"ConnectionEstablished", "ConnectionClosed", "OutgoingConnectionError"}

\* C40: the handling of a connection-established, connection-closed or dial-error
\* event leaves, in every record the table held and holds, the reputation score,
\* the latency, the version and the capabilities as they were.
C40_EventsKeepScoreAndProfile ==
  [][\A id \in DOMAIN peers \cap DOMAIN peers' :
       last'.op \in TransportEvents
         => /\ peers'[id].info.reputation_score = peers[id].info.reputation_score
            /\ peers'[id].info.latency = peers[id].info.latency
            /\ peers'[id].info.version = peers[id].info.version
            /\ peers'[id].info.capabilities = peers[id].info.capabilities]_vars

====
